---- MODULE Spec2Model ----
(***************************************************************************)
(* Memory / retrieval core of infinity-orchestrator                        *)
(* (src/stacks/memory/vector_store.py): the JSONL-backed VectorStore, its   *)
(* load / flush persistence path, the cosine-similarity query and the      *)
(* Markdown ingestion; and the rehydration engine built on it              *)
(* (src/stacks/memory/rehydration.py).                                     *)
(*                                                                         *)
(* Conventions of the model                                                *)
(*  - a text is a tuple of one-character strings;                          *)
(*  - a Python dict is a TLA+ function, an insertion-ordered dict of       *)
(*    Documents (VectorStore._index) is a sequence of Documents with       *)
(*    pairwise distinct ids;                                               *)
(*  - Python None / JSON null is the value None;                           *)
(*  - a JSON value of unknown shape (what json.loads gives for a file the  *)
(*    program does not write itself) is a record tagged with its type;     *)
(*  - a file is [exists, lines]; a line is what one record-sized write     *)
(*    puts on disk (records are the unit of the write granularity);        *)
(*  - a float is a binary floating point number of reduced precision,     *)
(*    rounded after every operation (see RoundRat).                        *)
(***************************************************************************)
EXTENDS Integers, Sequences, FiniteSets, TLC

VARIABLES
    file,     \* the backing file at the store path
    tmp,      \* the file at <store path>.tmp, shared by every instance
    index,    \* index[s]: VectorStore._index of instance s
    pc,       \* pc[s]: where instance s is: none, idle, flush, writing, crashed,
              \* ingest (in the loop of ingest_markdown)
    fd,       \* fd[s]: the file the open handle of s's _flush refers to
    off,      \* off[s]: number of records s has written through its handle
    call,     \* call[s]: the call in progress, or the last call made
    old,      \* old[s]: _index as it was when that call started
    preFile,  \* preFile[s]: the backing file as it was when that call started
    ret,      \* ret[s]: outcome of the last call
    dirty,    \* dirty[s]: the last attempt of s to persist raised
    calls,    \* calls[s]: calls started (counted in the race and ingest specs)
    lastFlush,\* who renamed last, and the lines of its index at that moment
    faults,   \* I/O failures injected so far
    sources,  \* what rehydration reads beside the store: snapshot, telemetry
              \* directory, org index file
    bundle,   \* outcome of the last rehydrate
    prompt,   \* outcome of the last build_context_prompt
    chunker   \* a call of _chunk_text: its arguments, its locals and where it is

\* the variables of the rehydration engine
rhVars == <<sources, bundle, prompt>>

vars == <<file, tmp, index, pc, fd, off, call, old, preFile, ret, dirty, calls, lastFlush, faults,
          sources, bundle, prompt, chunker>>

\* ------------------------------------------------------------------ bounds

\* query: top_k ranges over -MaxTopK .. MaxTopK
MaxTopK == 2
\* race specification: mutating calls each instance may start
MaxRaceCalls == 1
\* I/O failures (disk full, ...) injected into _flush in one behaviour
MaxFaults == 1

\* ------------------------------------------------------------- data domains

None == "null"
EmptyDict == [x \in {} |-> x]

Stores == {1, 2}
Ids == {"a", "b"}
TextAB == <<"a", "a", " ", "b", "b">>
TextC == <<"c", "c">>
\* two texts with the same token counts (aa: 3, bb: 1, cc: 1), the tokens
\* first occurring in different orders
TextD == <<"b", "b", " ", "c", "c", " ", "a", "a", " ", "a", "a", " ", "a", "a">>
TextE == <<"a", "a", " ", "a", "a", " ", "a", "a", " ", "b", "b", " ", "c", "c">>
Contents == { TextAB, TextC, TextD, TextE }
Metas == { EmptyDict, [source |-> "x"] }
\* the configured backend and what the remote embedding call returns (a
\* dense vector is written as its JSON text)
Tfidf == [backend |-> "tfidf", dense |-> None]
OpenAiDense == [backend |-> "openai", dense |-> "[3, 1]"]
DenseOutcomes ==
    { Tfidf, OpenAiDense,
      [backend |-> "openai", dense |-> None],
      [backend |-> "ollama", dense |-> "[2]"] }
\* the arguments of upsert: id "a" with three contents, id "b" with two,
\* embedded (sparse only, or with a dense vector) and with skip_embed=True
UpsertArgs ==
    [id : {"a"}, content : {TextAB, TextC}, metadata : Metas,
     skip : {FALSE}, remote : {Tfidf}]
    \cup [id : {"a"}, content : {TextD}, metadata : {EmptyDict},
          skip : {FALSE}, remote : {Tfidf}]
    \cup [id : {"b"}, content : {TextAB}, metadata : {EmptyDict},
          skip : BOOLEAN, remote : {Tfidf}]
    \cup [id : {"b"}, content : {TextE}, metadata : {EmptyDict},
          skip : {FALSE}, remote : {OpenAiDense}]
QueryTexts == { <<"A", "a", " ", "b">>, <<>>, TextD, TextE }
\* the terms of the model's texts and the orders a set of them may iterate in
Terms == { <<"a", "a">>, <<"b", "b">>, <<"c", "c">> }
HashOrders == { h \in [1..Cardinality(Terms) -> Terms] :
                  \A i, j \in 1..Cardinality(Terms) : h[i] = h[j] => i = j }
TopKs == (0 - MaxTopK) .. MaxTopK
Filters == { [given |-> FALSE, map |-> EmptyDict],
             [given |-> TRUE, map |-> EmptyDict],
             [given |-> TRUE, map |-> [source |-> "x"]],
             [given |-> TRUE, map |-> [source |-> "y"]],
             [given |-> TRUE, map |-> [source |-> None]] }

\* ingest_markdown: chunk_size ranges over 1 .. MaxChunkSize, overlap below it
MaxChunkSize == 3
\* ingest_markdown calls one behaviour makes
MaxIngests == 1
\* texts of one section: words without a heading (the last two with words
\* that are tokens: in mixed case, and with digits and punctuation)
PlainTexts ==
    { <<"x">>,
      <<"x", " ", "y">>,
      <<"x", " ", "y", " ", "z">>,
      <<"x", " ", "y", " ", "z", " ", "w">>,
      <<"A", "a", " ", "b", " ", "a", "A">>,
      <<"B", "-", " ", "7", "_">> }
\* texts with headings (1 to 6 '#' and a whitespace at the start of a line),
\* texts without a word, seven '#', a '#' inside a line
HeadingTexts ==
    { <<"#", " ", "T", "\n", "x", " ", "y">>,
      <<"x", "\n", "#", "#", " ", "T", " ", "U", "\n", "y", " ", "z">>,
      <<"#", " ", "\n">>,
      <<>>,
      <<"#", "\n", "x">>,
      <<"#", "#", "#", "#", "#", "#", "#", " ", "x">>,
      <<"x", " ", "#", " ", "y">>,
      <<" ", " ", "\n">> }
MdTexts == PlainTexts \cup HeadingTexts
\* the file ingest_markdown is given (at path "P"): absent, or holding a text
MdFiles == {[exists |-> FALSE, text |-> <<>>]} \cup [exists : {TRUE}, text : MdTexts]
Sources == {"S", ""}
ChunkParams == {p \in [size : 1..MaxChunkSize, overlap : 0..MaxChunkSize] : p.overlap < p.size}
\* ingest_markdown calls one behaviour of SpecReingest makes, and the files
\* they are given: absent, or a text of one, three or (with a heading) two words
MaxReingests == 2
ReingestFiles ==
    {[exists |-> FALSE, text |-> <<>>]} \cup
    [exists : {TRUE}, text : { <<"x">>,
                               <<"x", " ", "y", " ", "z">>,
                               <<"#", " ", "T", "\n", "x", " ", "y">> }]
\* _chunk_text called directly: every chunk_size >= 1 and overlap >= 0 up to
\* MaxChunkSize + 1, so overlap is below, equal to and above chunk_size
AnyChunkParams == [size : 1..MaxChunkSize, overlap : 0..(MaxChunkSize + 1)]
\* iterations of the while loop one call is followed for; a section of n
\* words takes at most n iterations when the start advances
MaxIterations == 6

Min(a, b) == IF a <= b THEN a ELSE b
Max(a, b) == IF a >= b THEN a ELSE b

\* ------------------------------------------------ tokenizer and embedding

\* _TOKEN_RE = [a-zA-Z0-9_\-]+ over the model's alphabet
TokenChars == {"a", "b", "c", "A", "B", "7", "_", "-"}

\* str.lower() on one character
Lower(ch) == CASE ch = "A" -> "a" [] ch = "B" -> "b" [] OTHER -> ch

LowerAll(tok) == [i \in 1..Len(tok) |-> Lower(tok[i])]

\* _TOKEN_RE.findall(text): the maximal runs of token characters, in order
RECURSIVE FindAll(_, _, _, _)
FindAll(text, i, cur, acc) ==
    IF i > Len(text)
    THEN IF cur = <<>> THEN acc ELSE Append(acc, cur)
    ELSE IF text[i] \in TokenChars
         THEN FindAll(text, i + 1, Append(cur, text[i]), acc)
         ELSE FindAll(text, i + 1, <<>>,
                      IF cur = <<>> THEN acc ELSE Append(acc, cur))

\* _tokenize: [t.lower() for t in findall(text) if len(t) > 1]
\* a tokenizer that keeps the case of the text
TokenizeKeepingCase(text) ==
    LET runs == FindAll(text, 1, <<>>, <<>>)
    IN  SelectSeq(runs, LAMBDA t : Len(t) > 1)

Tokenize(text) ==
    LET runs == FindAll(text, 1, <<>>, <<>>)
        keep == SelectSeq(runs, LAMBDA t : Len(t) > 1)
    IN  [i \in 1..Len(keep) |-> LowerAll(keep[i])]

\* Counter(tokens)[t]
Count(tokens, t) == Cardinality({i \in 1..Len(tokens) : tokens[i] = t})

\* the keys of Counter(tokens), in insertion order: every token where it
\* first occurs
RECURSIVE FirstSeen(_, _, _)
FirstSeen(tokens, i, acc) ==
    IF i > Len(tokens) THEN acc
    ELSE FirstSeen(tokens, i + 1,
                   IF \E j \in 1..Len(acc) : acc[j] = tokens[i]
                   THEN acc ELSE Append(acc, tokens[i]))

\* ----------------------------------------------------- floating point numbers
\* A Python float is a binary floating point number that every operation
\* rounds to the nearest representable value (ties to even).  The model keeps
\* the rounding and shortens the significand from 53 bits to MantBits bits;
\* a float is the integer number of units of 2^-FracBits it is worth.

MantBits == 10
FracBits == 12
Unit == 2 ^ FracBits

\* float(n) for a small integer n
FromInt(n) == n * Unit

\* the spacing of the floats around n / d
RECURSIVE UlpOf(_, _, _)
UlpOf(n, d, u) == IF n < (2 ^ MantBits) * u * d THEN u ELSE UlpOf(n, d, 2 * u)

\* the float nearest to n / d units
RoundRat(n, d) ==
    IF n = 0 THEN 0
    ELSE LET u == UlpOf(n, d, 1)
             q == n \div (d * u)
             r == n % (d * u)
             up == 2 * r > d * u \/ (2 * r = d * u /\ q % 2 = 1)
         IN  (IF up THEN q + 1 ELSE q) * u

\* a + b, a * b and a / b on floats
FAdd(a, b) == RoundRat(a + b, 1)
FMul(a, b) == RoundRat(a * b, Unit)
FDiv(a, b) == RoundRat(a * Unit, b)

\* the largest integer whose square is at most n, for n < 2^30
RECURSIVE ISqrtFrom(_, _, _)
ISqrtFrom(n, bit, r) ==
    IF bit = 0 THEN r
    ELSE ISqrtFrom(n, bit \div 2, IF (r + bit) * (r + bit) <= n THEN r + bit ELSE r)

\* math.sqrt: the float nearest to the square root
FSqrt(x) ==
    IF x = 0 THEN 0
    ELSE LET s2 == x * Unit
             r == ISqrtFrom(s2, 2 ^ 14, 0)
             u == UlpOf(r, 1, 1)
             m == r \div u
             up == (2 * m + 1) * (2 * m + 1) * u * u < 4 * s2
         IN  (IF up THEN m + 1 ELSE m) * u

\* math.log1p, tabulated at the arguments 1 / tf the model's texts produce
\* (1, 5/3, 2 and 5, as floats) and rounded
Log1p(x) ==
    CASE x = 4096  -> 2840
      [] x = 6832  -> 4020
      [] x = 8192  -> 4496
      [] x = 20480 -> 7336

\* sum(...) over floats: from 0, left to right, rounding after every addition
RECURSIVE FSum(_, _)
FSum(seq, n) == IF n = 0 THEN 0 ELSE FAdd(FSum(seq, n - 1), seq[n])

\* ---------------------------------------------------------------- embedding
\* A sparse vector {term: weight} is a sequence of [k, v] in the insertion
\* order of the dict, which is the order a.values() yields the weights in.

\* _tfidf_embed: {term: tf * log1p(1 / tf)}, {} for a text without tokens
TfidfEmbed(text) ==
    LET tokens == Tokenize(text)
        total == Len(tokens)
        terms == FirstSeen(tokens, 1, <<>>)
        Tf(t) == FDiv(FromInt(Count(tokens, t)), FromInt(total))
    IN  [i \in 1..Len(terms) |->
            [k |-> terms[i],
             v |-> FMul(Tf(terms[i]), Log1p(FDiv(FromInt(1), Tf(terms[i]))))]]

\* set(a): the terms of a sparse vector
Keys(a) == {a[i].k : i \in 1..Len(a)}

\* a[k]
ValueOf(a, k) == a[CHOOSE i \in 1..Len(a) : a[i].k = k].v

\* a _cosine_sparse that divides with // (floor division)
CosineSparseFloorDiv(a, b, h) ==
    LET common == Keys(a) \cap Keys(b)
        order == SelectSeq(h, LAMBDA k : k \in common)
        dot == FSum([i \in 1..Len(order) |->
                        FMul(ValueOf(a, order[i]), ValueOf(b, order[i]))], Len(order))
        magA == FSqrt(FSum([i \in 1..Len(a) |-> FMul(a[i].v, a[i].v)], Len(a)))
        magB == FSqrt(FSum([i \in 1..Len(b) |-> FMul(b[i].v, b[i].v)], Len(b)))
    IN  IF common = {} THEN 0
        ELSE IF magA = 0 \/ magB = 0 THEN 0
        ELSE FromInt(dot \div FMul(magA, magB))

\* _cosine_sparse.  h is the order in which the set `common` is iterated (the
\* hash order of the terms in this process), which is the order the products
\* of the dot product are added in.
CosineSparse(a, b, h) ==
    LET common == Keys(a) \cap Keys(b)
        order == SelectSeq(h, LAMBDA k : k \in common)
        dot == FSum([i \in 1..Len(order) |->
                        FMul(ValueOf(a, order[i]), ValueOf(b, order[i]))], Len(order))
        magA == FSqrt(FSum([i \in 1..Len(a) |-> FMul(a[i].v, a[i].v)], Len(a)))
        magB == FSqrt(FSum([i \in 1..Len(b) |-> FMul(b[i].v, b[i].v)], Len(b)))
    IN  IF common = {} THEN 0
        ELSE IF magA = 0 \/ magB = 0 THEN 0
        ELSE FDiv(dot, FMul(magA, magB))

\* embed_text.  remote is the configured backend (INFINITY_EMBED_BACKEND) and
\* what _embed_openai / _embed_ollama returns for the text: a dense vector,
\* or None when the call failed
EmbedText(text, remote) ==
    [backend |-> remote.backend,
     sparse |-> TfidfEmbed(text),
     dense |-> IF remote.backend \in {"openai", "ollama"} THEN remote.dense ELSE None]

\* _empty_embedding (skip_embed = True)
EmptyEmbedding == [backend |-> "none", sparse |-> <<>>, dense |-> None]

\* ---------------------------------------------------------------- Document

\* Document.__init__ (timestamp, correlation_id and run_id are not modelled)
Document(id, content, embedding, metadata) ==
    [id |-> id, content |-> content, embedding |-> embedding, metadata |-> metadata]

\* a to_dict that forgets the metadata key
ToDictWithoutMetadata(doc) ==
    [id |-> doc.id, content |-> doc.content, embedding |-> doc.embedding]

\* Document.to_dict
ToDict(doc) ==
    [id |-> doc.id, content |-> doc.content,
     embedding |-> doc.embedding, metadata |-> doc.metadata]

\* dict.get(key, default)
DictGet(d, k, default) == IF k \in DOMAIN d THEN d[k] ELSE default

\* Document.from_dict raises KeyError unless both keys are there
FromDictRaises(d) == ~ ({"id", "content"} \subseteq DOMAIN d)

\* Document.from_dict
FromDict(d) ==
    Document(d["id"], d["content"],
             DictGet(d, "embedding", EmptyDict), DictGet(d, "metadata", EmptyDict))

\* ------------------------------------------------ the insertion-ordered dict

\* doc_id in self._index
Has(idx, id) == \E i \in 1..Len(idx) : idx[i].id = id

Pos(idx, id) == CHOOSE i \in 1..Len(idx) : idx[i].id = id

\* self._index.get(doc_id): VectorStore.get
Get(idx, id) == IF Has(idx, id) THEN idx[Pos(idx, id)] ELSE None

\* len(self._index): VectorStore.count
CountDocs(idx) == Len(idx)

\* an assignment that merges the metadata of the entry it replaces
DictSetMergingMetadata(idx, doc) ==
    IF Has(idx, doc.id)
    THEN LET prev == idx[Pos(idx, doc.id)].metadata
             keys == DOMAIN prev \cup DOMAIN doc.metadata
             merged == [k \in keys |->
                          IF k \in DOMAIN doc.metadata THEN doc.metadata[k] ELSE prev[k]]
         IN  [idx EXCEPT ![Pos(idx, doc.id)] = [doc EXCEPT !.metadata = merged]]
    ELSE Append(idx, doc)

\* self._index[doc_id] = doc: an existing key keeps its place
DictSet(idx, doc) ==
    IF Has(idx, doc.id)
    THEN [idx EXCEPT ![Pos(idx, doc.id)] = doc]
    ELSE Append(idx, doc)

\* del self._index[doc_id]
DictDel(idx, id) == SelectSeq(idx, LAMBDA d : d.id # id)

IdsOf(idx) == {idx[i].id : i \in 1..Len(idx)}

\* ------------------------------------------------------------ files, lines

\* A line of a file.  kind: object (a JSON object, obj its keys), value (JSON
\* that is no object), garbage (text that is not JSON), blank (whitespace
\* only), undecodable (bytes that are not UTF-8), hole (the NUL bytes a
\* write past the end of a truncated file leaves; they carry no newline and
\* so prefix the line that follows them).
Line(kind, obj) == [kind |-> kind, obj |-> obj]

\* json.dumps(doc.to_dict(), ensure_ascii=False) + "\n"
DumpLine(doc) == Line("object", ToDict(doc))

NoFile == [exists |-> FALSE, lines |-> <<>>]
FileOf(lines) == [exists |-> TRUE, lines |-> lines]

\* the try block of _load on line i: json.loads and from_dict both succeed
Parses(lines, i) ==
    /\ lines[i].kind = "object"
    /\ ~ FromDictRaises(lines[i].obj)
    /\ (i = 1 \/ lines[i - 1].kind # "hole")

\* the loop of _load: self._index[doc.id] = doc for every line that parses
RECURSIVE LoadLines(_, _, _)
LoadLines(lines, i, idx) ==
    IF i > Len(lines) THEN idx
    ELSE LoadLines(lines, i + 1,
                   IF Parses(lines, i) THEN DictSet(idx, FromDict(lines[i].obj)) ELSE idx)

\* open(path, encoding="utf-8") decodes strictly: iterating the file raises
\* UnicodeDecodeError, outside the try block, on bytes that are not UTF-8
LoadRaises(f) ==
    f.exists /\ \E i \in 1..Len(f.lines) : f.lines[i].kind = "undecodable"

\* _load: the index a constructor builds from file f
Load(f) == IF f.exists THEN LoadLines(f.lines, 1, <<>>) ELSE <<>>

\* the loop of _flush: every Document of the index, in dict order
Serialize(idx) == [i \in 1..Len(idx) |-> DumpLine(idx[i])]

\* fh.write at offset o of a file opened with mode "w"
WriteAt(lines, o, line) ==
    IF o < Len(lines)
    THEN [lines EXCEPT ![o + 1] = line]
    ELSE lines \o [i \in 1..(o - Len(lines)) |-> Line("hole", EmptyDict)] \o <<line>>

\* -------------------------------------------------------------------- query

\* all(d.metadata.get(k) == v for k, v in metadata_filter.items())
Matches(doc, fmap) ==
    \A k \in DOMAIN fmap : DictGet(doc.metadata, k, None) = fmap[k]

\* a sort that puts an element before the elements of equal score
RECURSIVE InsertDescBeforeEqual(_, _)
InsertDescBeforeEqual(sorted, x) ==
    IF sorted = <<>> THEN <<x>>
    ELSE IF sorted[Len(sorted)].score > x.score THEN Append(sorted, x)
    ELSE Append(InsertDescBeforeEqual(SubSeq(sorted, 1, Len(sorted) - 1), x),
                sorted[Len(sorted)])

\* list.sort(key=score, reverse=True) is stable: an element goes behind every
\* element whose score is at least its own
RECURSIVE InsertDesc(_, _)
InsertDesc(sorted, x) ==
    IF sorted = <<>> THEN <<x>>
    ELSE IF sorted[Len(sorted)].score >= x.score THEN Append(sorted, x)
    ELSE Append(InsertDesc(SubSeq(sorted, 1, Len(sorted) - 1), x), sorted[Len(sorted)])

RECURSIVE SortDesc(_, _)
SortDesc(seq, n) ==
    IF n = 0 THEN <<>> ELSE InsertDesc(SortDesc(seq, n - 1), seq[n])

\* scored[:top_k]: a negative top_k counts from the end of the list
PySlice(seq, k) ==
    IF k >= 0 THEN SubSeq(seq, 1, Min(k, Len(seq)))
    ELSE SubSeq(seq, 1, Max(0, Len(seq) + k))

\* the candidates of VectorStore.query after the metadata filter
Candidates(idx, f) ==
    IF f.given /\ DOMAIN f.map # {}
    THEN SelectSeq(idx, LAMBDA d : Matches(d, f.map))
    ELSE idx

\* a query that leaves out the candidates scoring 0
QueryDroppingZeroScores(idx, q, k, f, env) ==
    IF idx = <<>> THEN <<>>
    ELSE LET qSparse == EmbedText(q, env.remote).sparse
             cands == Candidates(idx, f)
             scored == [i \in 1..Len(cands) |->
                          [score |-> CosineSparse(qSparse,
                                       DictGet(cands[i].embedding, "sparse", <<>>),
                                       env.hash),
                           doc |-> cands[i]]]
             kept == SelectSeq(scored, LAMBDA x : x.score > 0)
         IN  PySlice(SortDesc(kept, Len(kept)), k)

\* a query that scores by the dense vectors when both sides have one
QueryBlendingDense(idx, q, k, f, env) ==
    IF idx = <<>> THEN <<>>
    ELSE LET qEmbed == EmbedText(q, env.remote)
             cands == Candidates(idx, f)
             scored == [i \in 1..Len(cands) |->
                          [score |-> IF /\ qEmbed.dense # None
                                        /\ DictGet(cands[i].embedding, "dense", None) # None
                                     THEN FromInt(1)
                                     ELSE CosineSparse(qEmbed.sparse,
                                            DictGet(cands[i].embedding, "sparse", <<>>),
                                            env.hash),
                           doc |-> cands[i]]]
         IN  PySlice(SortDesc(scored, Len(scored)), k)

\* VectorStore.query.  env is the environment of the process: the iteration
\* order of sets of terms (hash) and the embedding backend with what it
\* returns for the query text (remote)
Query(idx, q, k, f, env) ==
    IF idx = <<>> THEN <<>>
    ELSE LET qSparse == EmbedText(q, env.remote).sparse
             cands == Candidates(idx, f)
             scored == [i \in 1..Len(cands) |->
                          [score |-> CosineSparse(qSparse,
                                       DictGet(cands[i].embedding, "sparse", <<>>),
                                       env.hash),
                           doc |-> cands[i]]]
         IN  PySlice(SortDesc(scored, Len(scored)), k)

\* ------------------------------------------------------------- text chunking

\* the characters str.split() and \s take for whitespace
IsSpace(ch) == ch \in {" ", "\n"}

\* the number of '#' from position i on
RECURSIVE HashRun(_, _)
HashRun(text, i) ==
    IF i <= Len(text) /\ text[i] = "#" THEN 1 + HashRun(text, i + 1) ELSE 0

\* _HEADING_RE = ^#{1,6}\s with re.MULTILINE, matched at position i: the
\* position of the last character of the match, 0 when there is no match
HeadingMatch(text, i) ==
    LET n == HashRun(text, i)
    IN  IF /\ (i = 1 \/ text[i - 1] = "\n")
           /\ n >= 1 /\ n <= 6
           /\ i + n <= Len(text) /\ IsSpace(text[i + n])
        THEN i + n ELSE 0

\* the position of the last character of the line position i is in
RECURSIVE LineEnd(_, _)
LineEnd(text, i) ==
    IF i >= Len(text) \/ text[i] = "\n" THEN Min(i, Len(text)) ELSE LineEnd(text, i + 1)

\* a split that drops the heading line whole
RECURSIVE SplitDroppingHeadingLines(_, _, _, _)
SplitDroppingHeadingLines(text, i, cur, acc) ==
    IF i > Len(text) THEN Append(acc, cur)
    ELSE IF HeadingMatch(text, i) > 0
         THEN SplitDroppingHeadingLines(text, LineEnd(text, HeadingMatch(text, i)) + 1,
                                        <<>>, Append(acc, cur))
         ELSE SplitDroppingHeadingLines(text, i + 1, Append(cur, text[i]), acc)

\* _HEADING_RE.split(text): the pieces of the text between the matches
RECURSIVE SplitHeadings(_, _, _, _)
SplitHeadings(text, i, cur, acc) ==
    IF i > Len(text) THEN Append(acc, cur)
    ELSE IF HeadingMatch(text, i) > 0
         THEN SplitHeadings(text, HeadingMatch(text, i) + 1, <<>>, Append(acc, cur))
         ELSE SplitHeadings(text, i + 1, Append(cur, text[i]), acc)

\* section.split(): the maximal runs of characters that are not whitespace
RECURSIVE SplitWords(_, _, _, _)
SplitWords(text, i, cur, acc) ==
    IF i > Len(text)
    THEN IF cur = <<>> THEN acc ELSE Append(acc, cur)
    ELSE IF IsSpace(text[i])
         THEN SplitWords(text, i + 1, <<>>, IF cur = <<>> THEN acc ELSE Append(acc, cur))
         ELSE SplitWords(text, i + 1, Append(cur, text[i]), acc)

Words(text) == SplitWords(text, 1, <<>>, <<>>)

\* " ".join(words)
RECURSIVE Join(_, _)
Join(words, n) ==
    IF n = 0 THEN <<>>
    ELSE IF n = 1 THEN words[1]
    ELSE Join(words, n - 1) \o <<" ">> \o words[n]

\* a loop that advances the start by chunkSize - overlap until the start is
\* at or past the end
RECURSIVE WindowsByStride(_, _, _, _, _)
WindowsByStride(n, start, chunkSize, overlap, acc) ==
    IF ~ (start < n) THEN acc
    ELSE WindowsByStride(n, start + chunkSize - overlap, chunkSize, overlap,
                         Append(acc, [start |-> start, end |-> Min(start + chunkSize, n)]))

\* the while loop of _chunk_text over a section of n words: the windows
\* [start, end) it emits, from `start` on
RECURSIVE Windows(_, _, _, _, _)
Windows(n, start, chunkSize, overlap, acc) ==
    IF ~ (start < n) THEN acc
    ELSE LET end == Min(start + chunkSize, n)
             emitted == Append(acc, [start |-> start, end |-> end])
         IN  IF end >= n THEN emitted
             ELSE Windows(n, end - overlap, chunkSize, overlap, emitted)

\* the chunks of one section
SectionChunks(section, chunkSize, overlap) ==
    LET words == Words(section)
        wins == Windows(Len(words), 0, chunkSize, overlap, <<>>)
    IN  [k \in 1..Len(wins) |->
            LET part == SubSeq(words, wins[k].start + 1, wins[k].end)
            IN  Join(part, Len(part))]

RECURSIVE AllChunks(_, _, _, _)
AllChunks(sections, n, chunkSize, overlap) ==
    IF n = 0 THEN <<>>
    ELSE AllChunks(sections, n - 1, chunkSize, overlap)
             \o SectionChunks(sections[n], chunkSize, overlap)

\* _CHUNK_FALLBACK_MULTIPLIER
ChunkFallbackMultiplier == 6

\* _chunk_text
ChunkText(text, chunkSize, overlap) ==
    LET sections == SplitHeadings(text, 1, <<>>, <<>>)
        chunks == AllChunks(sections, Len(sections), chunkSize, overlap)
    IN  IF chunks # <<>> THEN chunks
        ELSE << SubSeq(text, 1, Min(Len(text), chunkSize * ChunkFallbackMultiplier)) >>

\* _chunk_text, one step per iteration: chunker holds the arguments and the
\* locals (sections, section: the number of the one in hand, words, start,
\* chunks); spans keeps, for every chunk appended, its section, start and end

\* words[start:end]: a negative bound counts from the end of the list
PyRange(words, start, end) ==
    LET Norm(b) == IF b < 0 THEN Max(0, Len(words) + b) ELSE Min(b, Len(words))
    IN  SubSeq(words, Norm(start) + 1, Norm(end))

\* the call: the text is split at the headings, no section is in hand yet
ChunkTextCall(text, chunkSize, overlap) ==
    [pc |-> "for", text |-> text, chunkSize |-> chunkSize, overlap |-> overlap,
     sections |-> SplitHeadings(text, 1, <<>>, <<>>), section |-> 0,
     words |-> <<>>, start |-> 0, chunks |-> <<>>, spans |-> <<>>, iterations |-> 0]

\* for section in sections: the next section; one without a word is passed over
ForSection(c) ==
    LET words == Words(c.sections[c.section + 1])
    IN  [c EXCEPT !.section = c.section + 1, !.words = words, !.start = 0,
                  !.pc = IF words = <<>> THEN "for" ELSE "while"]

\* a loop body that starts the next window where this one ended
WhileBodyWithoutOverlap(c) ==
    LET end == Min(c.start + c.chunkSize, Len(c.words))
        part == PyRange(c.words, c.start, end)
        chunk == Join(part, Len(part))
        kept == chunk # <<>>
    IN  [c EXCEPT !.chunks = IF kept THEN Append(c.chunks, chunk) ELSE c.chunks,
                  !.spans = IF kept
                            THEN Append(c.spans, [section |-> c.section,
                                                  start |-> c.start, end |-> end])
                            ELSE c.spans,
                  !.iterations = c.iterations + 1,
                  !.pc = IF end >= Len(c.words) THEN "for" ELSE "while",
                  !.start = IF end >= Len(c.words) THEN c.start ELSE end]

\* one pass of `while start < len(words)`: the test, and the body if it holds
WhileBody(c) ==
    IF ~ (c.start < Len(c.words)) THEN [c EXCEPT !.pc = "for"]
    ELSE LET end == Min(c.start + c.chunkSize, Len(c.words))
             part == PyRange(c.words, c.start, end)
             chunk == Join(part, Len(part))
             kept == chunk # <<>>
         IN  [c EXCEPT !.chunks = IF kept THEN Append(c.chunks, chunk) ELSE c.chunks,
                       !.spans = IF kept
                                 THEN Append(c.spans, [section |-> c.section,
                                                       start |-> c.start, end |-> end])
                                 ELSE c.spans,
                       !.iterations = c.iterations + 1,
                       !.pc = IF end >= Len(c.words) THEN "for" ELSE "while",
                       !.start = IF end >= Len(c.words) THEN c.start ELSE end - c.overlap]

\* return chunks or [text[:chunk_size * _CHUNK_FALLBACK_MULTIPLIER]]
ChunkReturnValue(c) ==
    IF c.chunks # <<>> THEN c.chunks
    ELSE << SubSeq(c.text, 1, Min(Len(c.text), c.chunkSize * ChunkFallbackMultiplier)) >>

ChunkOthers ==
    UNCHANGED <<file, tmp, index, pc, fd, off, call, old, preFile, ret, dirty, calls,
                lastFlush, faults, rhVars>>

ChunkForSection ==
    /\ chunker.pc = "for"
    /\ chunker.section < Len(chunker.sections)
    /\ chunker' = ForSection(chunker)
    /\ ChunkOthers

ChunkWhile ==
    /\ chunker.pc = "while"
    /\ chunker.iterations < MaxIterations
    /\ chunker' = WhileBody(chunker)
    /\ ChunkOthers

ChunkReturn ==
    /\ chunker.pc = "for"
    /\ chunker.section = Len(chunker.sections)
    /\ chunker' = [chunker EXCEPT !.pc = "returned", !.chunks = ChunkReturnValue(chunker)]
    /\ ChunkOthers

\* ------------------------------------------------------------ initial state

\* the backing files a store may be constructed on: no file, an empty file,
\* a file a store wrote earlier, files with malformed lines between records
\* (one id occurring twice), a file with a line that is not UTF-8
InitFiles ==
    { NoFile,
      FileOf(<<>>),
      FileOf(<< DumpLine(Document("a", TextAB, EmbedText(TextAB, Tfidf), [source |-> "x"])),
                DumpLine(Document("b", TextC, EmbedText(TextC, Tfidf), EmptyDict)) >>),
      FileOf(<< DumpLine(Document("a", TextAB, EmbedText(TextAB, Tfidf), [source |-> "x"])),
                Line("garbage", EmptyDict),
                Line("value", EmptyDict),
                Line("object", [content |-> TextC]),
                Line("object", [id |-> "b"]),
                Line("blank", EmptyDict),
                Line("object", [id |-> "a", content |-> TextC]) >>),
      FileOf(<< DumpLine(Document("b", TextC, EmbedText(TextC, Tfidf), EmptyDict)),
                Line("undecodable", EmptyDict) >>) }

NoCall == [op |-> "none"]

\* nothing beside the store exists: no snapshot, no telemetry directory, no
\* org index file
NoSources ==
    [snapshot |-> [exists |-> FALSE],
     telemetry |-> [exists |-> FALSE, files |-> <<>>],
     orgIndex |-> [exists |-> FALSE]]

\* rehydrate / build_context_prompt has not been called
NotCalled == [state |-> "none"]
Ret(kind) == [kind |-> kind, hits |-> <<>>]

Init ==
    /\ file \in InitFiles
    /\ tmp = NoFile
    /\ index = [s \in Stores |-> <<>>]
    /\ pc = [s \in Stores |-> "none"]
    /\ fd = [s \in Stores |-> "none"]
    /\ off = [s \in Stores |-> 0]
    /\ call = [s \in Stores |-> NoCall]
    /\ old = [s \in Stores |-> <<>>]
    /\ preFile = [s \in Stores |-> NoFile]
    /\ ret = [s \in Stores |-> Ret("none")]
    /\ dirty = [s \in Stores |-> FALSE]
    /\ calls = [s \in Stores |-> 0]
    /\ lastFlush = [by |-> 0, lines |-> <<>>]
    /\ faults = 0
    /\ sources = NoSources
    /\ bundle = NotCalled
    /\ prompt = NotCalled
    /\ chunker = NotCalled

\* ------------------------------------------------------------------ actions

InCall(s) == pc[s] \in {"flush", "writing"}

\* a constructor that rewrites the backing file without the lines it skipped
ConstructCompacting(s) ==
    /\ pc[s] \in {"none", "idle", "crashed"}
    /\ IF LoadRaises(file)
       THEN /\ pc' = [pc EXCEPT ![s] = "none"]
            /\ index' = [index EXCEPT ![s] = <<>>]
            /\ ret' = [ret EXCEPT ![s] = Ret("ctor_raised")]
            /\ file' = file
       ELSE /\ pc' = [pc EXCEPT ![s] = "idle"]
            /\ index' = [index EXCEPT ![s] = Load(file)]
            /\ ret' = [ret EXCEPT ![s] = Ret("constructed")]
            /\ file' = IF file.exists THEN FileOf(Serialize(Load(file))) ELSE file
    /\ call' = [call EXCEPT ![s] = NoCall]
    /\ old' = [old EXCEPT ![s] = <<>>]
    /\ preFile' = [preFile EXCEPT ![s] = file]
    /\ dirty' = [dirty EXCEPT ![s] = FALSE]
    /\ off' = [off EXCEPT ![s] = 0]
    /\ UNCHANGED <<tmp, fd, lastFlush>>

\* VectorStore.__init__: a new instance on the store path, also after the
\* process that held the previous one stopped or discarded it
Construct(s) ==
    /\ pc[s] \in {"none", "idle", "crashed"}
    /\ IF LoadRaises(file)
       THEN /\ pc' = [pc EXCEPT ![s] = "none"]
            /\ index' = [index EXCEPT ![s] = <<>>]
            /\ ret' = [ret EXCEPT ![s] = Ret("ctor_raised")]
       ELSE /\ pc' = [pc EXCEPT ![s] = "idle"]
            /\ index' = [index EXCEPT ![s] = Load(file)]
            /\ ret' = [ret EXCEPT ![s] = Ret("constructed")]
    /\ call' = [call EXCEPT ![s] = NoCall]
    /\ old' = [old EXCEPT ![s] = <<>>]
    /\ preFile' = [preFile EXCEPT ![s] = file]
    /\ dirty' = [dirty EXCEPT ![s] = FALSE]
    /\ off' = [off EXCEPT ![s] = 0]
    /\ UNCHANGED <<file, tmp, fd, lastFlush>>

\* a mutating call starts: the index is changed first, _flush follows
Begin(s, c, newIndex) ==
    /\ pc[s] = "idle"
    /\ call' = [call EXCEPT ![s] = c]
    /\ old' = [old EXCEPT ![s] = index[s]]
    /\ preFile' = [preFile EXCEPT ![s] = file]
    /\ index' = [index EXCEPT ![s] = newIndex]
    /\ pc' = [pc EXCEPT ![s] = "flush"]
    /\ ret' = [ret EXCEPT ![s] = Ret("none")]
    /\ UNCHANGED <<file, tmp, fd, off, dirty, lastFlush>>

\* the Document upsert stores
UpsertDoc(id, content, metadata, skip, remote) ==
    Document(id, content,
             IF skip THEN EmptyEmbedding ELSE EmbedText(content, remote), metadata)

\* VectorStore.upsert up to the call of _flush
UpsertBegin(s, id, content, metadata, skip, remote) ==
    Begin(s, [op |-> "upsert", id |-> id, content |-> content,
              metadata |-> metadata, skip |-> skip, remote |-> remote],
          DictSet(index[s], UpsertDoc(id, content, metadata, skip, remote)))

\* VectorStore.delete of an id that is in the index, up to the call of _flush
DeleteBegin(s, id) ==
    /\ Has(index[s], id)
    /\ Begin(s, [op |-> "delete", id |-> id], DictDel(index[s], id))

\* a delete that flushes also when the id is not in the index
DeleteAbsentRewrites(s, id) ==
    /\ pc[s] = "idle"
    /\ ~ Has(index[s], id)
    /\ call' = [call EXCEPT ![s] = [op |-> "delete", id |-> id]]
    /\ old' = [old EXCEPT ![s] = index[s]]
    /\ preFile' = [preFile EXCEPT ![s] = file]
    /\ ret' = [ret EXCEPT ![s] = Ret("false")]
    /\ file' = FileOf(Serialize(index[s]))
    /\ UNCHANGED <<tmp, index, pc, fd, off, dirty, lastFlush>>

\* VectorStore.delete of an id that is not in the index: returns False
DeleteAbsent(s, id) ==
    /\ pc[s] = "idle"
    /\ ~ Has(index[s], id)
    /\ call' = [call EXCEPT ![s] = [op |-> "delete", id |-> id]]
    /\ old' = [old EXCEPT ![s] = index[s]]
    /\ preFile' = [preFile EXCEPT ![s] = file]
    /\ ret' = [ret EXCEPT ![s] = Ret("false")]
    /\ UNCHANGED <<file, tmp, index, pc, fd, off, dirty, lastFlush>>

\* VectorStore.clear up to the call of _flush
ClearBegin(s) == Begin(s, [op |-> "clear"], <<>>)

\* the handles of the other instances after s renamed the temporary file
\* onto the store path
AfterRename(s) ==
    [t \in Stores |->
        IF t = s THEN "none"
        ELSE CASE fd[t] = "store" -> "orphan"
               [] fd[t] = "tmp" -> "store"
               [] OTHER -> fd[t]]

\* a _flush that opens the store path itself instead of a temporary file
FlushOpenInPlace(s) ==
    /\ pc[s] = "flush"
    /\ file' = FileOf(<<>>)
    /\ fd' = [fd EXCEPT ![s] = "store"]
    /\ off' = [off EXCEPT ![s] = 0]
    /\ pc' = [pc EXCEPT ![s] = "writing"]
    /\ UNCHANGED <<tmp, index, call, old, preFile, ret, dirty, lastFlush>>

\* _flush: open(tmp, "w") creates the temporary file or truncates it
FlushOpen(s) ==
    /\ pc[s] = "flush"
    /\ tmp' = FileOf(<<>>)
    /\ fd' = [fd EXCEPT ![s] = "tmp"]
    /\ off' = [off EXCEPT ![s] = 0]
    /\ pc' = [pc EXCEPT ![s] = "writing"]
    /\ UNCHANGED <<file, index, call, old, preFile, ret, dirty, lastFlush>>

\* _flush: fh.write of the next Document, through the handle
FlushWrite(s) ==
    /\ pc[s] = "writing"
    /\ off[s] < Len(index[s])
    /\ LET line == Serialize(index[s])[off[s] + 1]
       IN  /\ tmp' = IF fd[s] = "tmp"
                     THEN FileOf(WriteAt(tmp.lines, off[s], line)) ELSE tmp
           /\ file' = IF fd[s] = "store"
                      THEN FileOf(WriteAt(file.lines, off[s], line)) ELSE file
    /\ off' = [off EXCEPT ![s] = off[s] + 1]
    /\ UNCHANGED <<index, pc, fd, call, old, preFile, ret, dirty, lastFlush>>

\* what the call in progress returns when _flush returns
Returned(s) == IF call[s].op = "delete" THEN Ret("true") ELSE Ret("ok")

\* _flush: the file is closed and tmp.replace(self._path) renames it; the
\* rename raises FileNotFoundError when the temporary file is gone.  The
\* call returns when the rename has succeeded (an upsert that ingest_markdown
\* made returns into its loop).
FlushReplace(s) ==
    /\ pc[s] = "writing"
    /\ off[s] = Len(index[s])
    /\ pc' = [pc EXCEPT ![s] = IF tmp.exists /\ call[s].op = "ingest"
                                THEN "ingest" ELSE "idle"]
    /\ IF tmp.exists
       THEN /\ file' = tmp
            /\ tmp' = NoFile
            /\ fd' = AfterRename(s)
            /\ ret' = [ret EXCEPT ![s] = Returned(s)]
            /\ dirty' = [dirty EXCEPT ![s] = FALSE]
            /\ lastFlush' = [by |-> s, lines |-> Serialize(index[s])]
       ELSE /\ fd' = [fd EXCEPT ![s] = "none"]
            /\ ret' = [ret EXCEPT ![s] = Ret("raised")]
            /\ dirty' = [dirty EXCEPT ![s] = TRUE]
            /\ UNCHANGED <<file, tmp, lastFlush>>
    /\ UNCHANGED <<index, off, call, old, preFile>>

\* a _flush that catches the exception and lets the call return
FlushFailSwallowed(s) ==
    /\ InCall(s)
    /\ pc' = [pc EXCEPT ![s] = "idle"]
    /\ fd' = [fd EXCEPT ![s] = "none"]
    /\ ret' = [ret EXCEPT ![s] = Returned(s)]
    /\ UNCHANGED <<file, tmp, index, off, call, old, preFile, lastFlush, dirty>>

\* _flush: opening, writing, closing or renaming fails (disk full, no
\* permission, ...): the exception leaves _flush and the call
FlushFail(s) ==
    /\ InCall(s)
    /\ pc' = [pc EXCEPT ![s] = "idle"]
    /\ fd' = [fd EXCEPT ![s] = "none"]
    /\ ret' = [ret EXCEPT ![s] = Ret("raised")]
    /\ dirty' = [dirty EXCEPT ![s] = TRUE]
    /\ UNCHANGED <<file, tmp, index, off, call, old, preFile, lastFlush>>

\* the process running instance s stops inside a mutating call: its memory
\* and its open handle are gone, the files stay as they are
Crash(s) ==
    /\ InCall(s)
    /\ pc' = [pc EXCEPT ![s] = "crashed"]
    /\ fd' = [fd EXCEPT ![s] = "none"]
    /\ index' = [index EXCEPT ![s] = <<>>]
    /\ old' = [old EXCEPT ![s] = <<>>]
    /\ off' = [off EXCEPT ![s] = 0]
    /\ UNCHANGED <<file, tmp, call, preFile, ret, dirty, lastFlush>>

\* VectorStore.query: reads the index, changes nothing
QueryCall(s, q, k, f, env) ==
    /\ pc[s] = "idle"
    /\ call' = [call EXCEPT ![s] = [op |-> "query", text |-> q, topK |-> k,
                                    filter |-> f, env |-> env]]
    /\ old' = [old EXCEPT ![s] = index[s]]
    /\ preFile' = [preFile EXCEPT ![s] = file]
    /\ ret' = [ret EXCEPT ![s] = [kind |-> "hits", hits |-> Query(index[s], q, k, f, env)]]
    /\ UNCHANGED <<file, tmp, index, pc, fd, off, dirty, lastFlush>>

\* ------------------------------------------------------------ ingest_markdown

\* source_label = source or str(path); the path given is "P"
SourceLabel(source) == IF source # "" THEN source ELSE "P"

\* ids counted from 1
ChunkIdFromOne(label, i) == label \o "::" \o ToString(i + 1)

\* doc_id = f"{source_label}::{i}"
ChunkId(label, i) == label \o "::" \o ToString(i)

\* what one round of the loop of ingest_markdown upserts (i counts from 0)
ChunkDoc(label, chunks, i) ==
    UpsertDoc(ChunkId(label, i), chunks[i + 1],
              [source |-> label, chunk_index |-> i, total_chunks |-> Len(chunks)],
              FALSE, Tfidf)

RetCount(n) == [kind |-> "count", hits |-> <<>>, n |-> n]

\* ingest_markdown up to its loop: returns 0 when the path does not exist,
\* reads and chunks the text otherwise
IngestBegin(s, md, source, p) ==
    /\ pc[s] = "idle"
    /\ old' = [old EXCEPT ![s] = index[s]]
    /\ preFile' = [preFile EXCEPT ![s] = file]
    /\ IF ~ md.exists
       THEN /\ call' = [call EXCEPT ![s] = [op |-> "ingest", md |-> md, source |-> source,
                                            params |-> p, chunks |-> <<>>, i |-> 0]]
            /\ ret' = [ret EXCEPT ![s] = RetCount(0)]
            /\ pc' = pc
       ELSE /\ call' = [call EXCEPT ![s] =
                          [op |-> "ingest", md |-> md, source |-> source, params |-> p,
                           chunks |-> ChunkText(md.text, p.size, p.overlap), i |-> 0]]
            /\ ret' = [ret EXCEPT ![s] = Ret("none")]
            /\ pc' = [pc EXCEPT ![s] = "ingest"]
    /\ UNCHANGED <<file, tmp, index, fd, off, dirty, lastFlush>>

\* one round of the loop: self.upsert(doc_id, chunk, metadata=...) up to the
\* call of _flush
IngestUpsert(s) ==
    /\ pc[s] = "ingest"
    /\ call[s].i < Len(call[s].chunks)
    /\ index' = [index EXCEPT ![s] =
                    DictSet(index[s], ChunkDoc(SourceLabel(call[s].source),
                                               call[s].chunks, call[s].i))]
    /\ call' = [call EXCEPT ![s].i = call[s].i + 1]
    /\ pc' = [pc EXCEPT ![s] = "flush"]
    /\ UNCHANGED <<file, tmp, fd, off, old, preFile, ret, dirty, lastFlush>>

\* return len(chunks)
IngestReturn(s) ==
    /\ pc[s] = "ingest"
    /\ call[s].i = Len(call[s].chunks)
    /\ ret' = [ret EXCEPT ![s] = RetCount(Len(call[s].chunks))]
    /\ pc' = [pc EXCEPT ![s] = "idle"]
    /\ UNCHANGED <<file, tmp, index, fd, off, call, old, preFile, dirty, lastFlush>>

\* --------------------------------------------------------- JSON values

\* what json.loads returns, tagged with its type: a text is `str`, a dict
\* `obj` (fields: a function from keys to JSON values)
JNull == [t |-> "null"]
JBool(b) == [t |-> "bool", b |-> b]
JNum(n) == [t |-> "num", n |-> n]
JStr(chars) == [t |-> "str", s |-> chars]
JList(items) == [t |-> "list", items |-> items]
JObj(fields) == [t |-> "obj", fields |-> fields]

\* bool(v)
Truthy(v) ==
    CASE v.t = "null" -> FALSE
      [] v.t = "bool" -> v.b
      [] v.t = "num" -> v.n # 0
      [] v.t = "str" -> v.s # <<>>
      [] v.t = "list" -> v.items # <<>>
      [] v.t = "obj" -> DOMAIN v.fields # {}

\* v.get(...) raises AttributeError unless v is a dict
GetRaises(v) == v.t # "obj"

\* v.get(key, default) on a dict
JGet(v, key, default) == DictGet(v.fields, key, default)

\* v[:n] raises TypeError unless v is a str or a list
SliceRaises(v) == v.t \notin {"str", "list"}

\* v[:n] on a str or a list, n >= 0
JSlice(v, n) ==
    IF v.t = "str" THEN JStr(SubSeq(v.s, 1, Min(n, Len(v.s))))
    ELSE JList(SubSeq(v.items, 1, Min(n, Len(v.items))))

\* len(v) of a str or a list
JLen(v) == IF v.t = "str" THEN Len(v.s) ELSE Len(v.items)

\* what iterating a str or a list yields: a str yields its characters
JItems(v) == IF v.t = "str" THEN [i \in 1..Len(v.s) |-> JStr(<<v.s[i]>>)] ELSE v.items

\* an embedding that json.loads read as null; a dict embedding is written as
\* a function from its keys
NullEmbedding == JNull
IsDictEmbedding(e) == "t" \notin DOMAIN e

\* ------------------------------------------------------------- rehydration

\* _MEMORY_FRESHNESS_HOURS (default 2), ages counted in thousandths of an hour
FreshnessMilliHours == 2000

\* n / d rounded to the nearest integer, halves to even (round, format)
RoundDiv(n, d) ==
    LET q == n \div d
        r == n % d
    IN  IF 2 * r > d \/ (2 * r = d /\ q % 2 = 1) THEN q + 1 ELSE q

NoWarning == [kind |-> "none"]

\* a loader that takes a snapshot of the threshold age for stale
LoadActiveMemoryStaleAtThreshold(snap) ==
    IF ~ snap.exists
    THEN [available |-> FALSE, content |-> <<>>, age_hours |-> JNull,
          warning |-> [kind |-> "absent"]]
    ELSE IF snap.stat = "fails" \/ snap.read = "fails"
    THEN [available |-> FALSE, content |-> <<>>, age_hours |-> JNull,
          warning |-> [kind |-> "unreadable"]]
    ELSE [available |-> TRUE, content |-> snap.content,
          age_hours |-> JNum(RoundDiv(snap.age, 10)),
          warning |-> IF snap.age >= FreshnessMilliHours
                      THEN [kind |-> "stale", age |-> RoundDiv(snap.age, 100)]
                      ELSE NoWarning]

\* _load_active_memory: snap is the snapshot file (age in thousandths of an
\* hour).  age_hours is rounded to hundredths.
LoadActiveMemory(snap) ==
    IF ~ snap.exists
    THEN [available |-> FALSE, content |-> <<>>, age_hours |-> JNull,
          warning |-> [kind |-> "absent"]]
    ELSE IF snap.stat = "fails"
    THEN [available |-> FALSE, content |-> <<>>, age_hours |-> JNull,
          warning |-> [kind |-> "unreadable"]]
    ELSE IF snap.read = "fails"
    THEN [available |-> FALSE, content |-> <<>>, age_hours |-> JNum(RoundDiv(snap.age, 10)),
          warning |-> [kind |-> "unreadable"]]
    ELSE [available |-> TRUE, content |-> snap.content,
          age_hours |-> JNum(RoundDiv(snap.age, 10)),
          warning |-> IF snap.age > FreshnessMilliHours
                      THEN [kind |-> "stale", age |-> RoundDiv(snap.age, 100)]
                      ELSE NoWarning]

\* sorted(glob, key=lambda p: p.stat().st_mtime, reverse=True) raises when
\* the stat of a listed file fails (the file is gone)
SortRaises(files) == \E i \in 1..Len(files) : files[i].stat = "gone"

\* the listed files, most recently modified first (the sort is stable)
ByMtimeDesc(files) ==
    LET keyed == [i \in 1..Len(files) |-> [score |-> files[i].mtime, doc |-> files[i]]]
        sorted == SortDesc(keyed, Len(keyed))
    IN  [i \in 1..Len(sorted) |-> sorted[i].doc]

\* the loop of _load_recent_telemetry: a file that cannot be read or parsed
\* is skipped
RECURSIVE ParsedEntries(_, _)
ParsedEntries(files, n) ==
    IF n = 0 THEN <<>>
    ELSE IF files[n].read = "ok"
         THEN Append(ParsedEntries(files, n - 1), files[n].value)
         ELSE ParsedEntries(files, n - 1)

\* a loader that takes the newest max_entries files that parse
LoadRecentTelemetryParsableFirst(dir, maxEntries) ==
    IF ~ dir.exists THEN <<>>
    ELSE LET sorted == ByMtimeDesc(dir.files)
         IN  PySlice(ParsedEntries(sorted, Len(sorted)), maxEntries)

\* _load_recent_telemetry(max_entries), when the sort does not raise
LoadRecentTelemetry(dir, maxEntries) ==
    IF ~ dir.exists THEN <<>>
    ELSE LET recent == PySlice(ByMtimeDesc(dir.files), maxEntries)
         IN  ParsedEntries(recent, Len(recent))

\* _load_org_index: {} when the file is absent, unreadable or no JSON
LoadOrgIndex(f) ==
    IF f.exists /\ f.read = "ok" THEN f.value ELSE JObj(EmptyDict)

\* step 4 of rehydrate: org_repos from the loaded index
OrgRepos(orgIndex) ==
    IF orgIndex.t = "obj" THEN JGet(orgIndex, "repositories", JList(<<>>))
    ELSE IF orgIndex.t = "list" THEN orgIndex
    ELSE JList(<<>>)

\* doc.embedding.get raises AttributeError in VectorStore.query
QueryRaises(idx) ==
    idx # <<>> /\ \E i \in 1..Len(idx) : ~ IsDictEmbedding(idx[i].embedding)

\* doc.content[:400] in rehydrate
HitContentChars == 400

\* max_entries=5 in rehydrate
RecentRunsMax == 5

\* step 1 of rehydrate: the hits, scores rounded to 4 decimals (counted in
\* ten-thousandths); an exception of the constructor or of query becomes a
\* warning
VectorHits(f, q, k, env) ==
    IF LoadRaises(f) \/ QueryRaises(Load(f))
    THEN [hits |-> <<>>, warning |-> [kind |-> "vector_store_unavailable"]]
    ELSE LET results == Query(Load(f), q, k, [given |-> FALSE, map |-> EmptyDict], env)
         IN  [hits |-> [i \in 1..Len(results) |->
                          [score |-> RoundDiv(results[i].score * 10000, Unit),
                           id |-> results[i].doc.id,
                           content |-> SubSeq(results[i].doc.content, 1,
                                              Min(HitContentChars,
                                                  Len(results[i].doc.content))),
                           metadata |-> results[i].doc.metadata]],
              warning |-> NoWarning]

\* rehydrate(query, top_k, include_*): raised, or the bundle returned
Rehydrate(f, src, q, k, inc, env) ==
    LET vec == VectorHits(f, q, k, env)
        am == IF inc.active_memory THEN LoadActiveMemory(src.snapshot) ELSE EmptyDict
        amWarning == DictGet(am, "warning", NoWarning)
        warnings == (IF vec.warning # NoWarning THEN <<vec.warning>> ELSE <<>>)
                    \o (IF amWarning # NoWarning THEN <<amWarning>> ELSE <<>>)
    IN  IF inc.telemetry /\ src.telemetry.exists /\ SortRaises(src.telemetry.files)
        THEN [state |-> "raised"]
        ELSE [state |-> "returned",
              value |->
                [vector_hits |-> vec.hits,
                 active_memory |-> am,
                 recent_runs |-> IF inc.telemetry
                                 THEN LoadRecentTelemetry(src.telemetry, RecentRunsMax)
                                 ELSE <<>>,
                 org_repos |-> IF inc.org_index
                               THEN OrgRepos(LoadOrgIndex(src.orgIndex))
                               ELSE JList(<<>>),
                 warnings |-> warnings,
                 rehydrated_at |-> "now",
                 query |-> q]]

\* -------------------------------------------------- build_context_prompt

\* the limits written into build_context_prompt
HitExcerptChars == 300
ReposShown == 10
UpdatedChars == 10
RunsShown == 3
TimestampChars == 19

P(kind) == [kind |-> kind]

\* the lines of one hit
HitLines(hit, i) ==
    << [kind |-> "hit", i |-> i, score |-> RoundDiv(hit.score, 10), id |-> hit.id],
       [kind |-> "hit_excerpt",
        text |-> SubSeq(hit.content, 1, Min(HitExcerptChars, Len(hit.content)))],
       P("blank") >>

RECURSIVE HitsLines(_, _)
HitsLines(hits, n) ==
    IF n = 0 THEN <<>> ELSE HitsLines(hits, n - 1) \o HitLines(hits[n], n)

\* the text before the last line break (rsplit("\n", 1)[0])
RECURSIVE BeforeLastBreak(_, _)
BeforeLastBreak(text, n) ==
    IF n = 0 THEN text
    ELSE IF text[n] = "\n" THEN SubSeq(text, 1, n - 1)
    ELSE BeforeLastBreak(text, n - 1)

\* the ACTIVE_MEMORY excerpt: cut to max_memory_chars, then to its last
\* complete line, with an ellipsis line
MemoryLines(am, maxMemoryChars) ==
    IF DictGet(am, "available", FALSE) /\ DictGet(am, "content", <<>>) # <<>>
    THEN LET cut == PySlice(am.content, maxMemoryChars)
             excerpt == IF Len(am.content) > maxMemoryChars
                        THEN BeforeLastBreak(cut, Len(cut)) \o <<"\n", "...">>
                        ELSE cut
         IN  << P("memory_heading"), P("blank"), P("fence_open"),
                [kind |-> "memory", text |-> excerpt], P("fence_close"), P("blank") >>
    ELSE <<>>

\* one round of the loop over repos raises unless repo is a dict whose
\* updated_at, when there, is a str or a list
RepoRaises(repo) ==
    GetRaises(repo) \/ SliceRaises(JGet(repo, "updated_at", JStr(<<>>)))

RepoLine(repo) ==
    [kind |-> "repo",
     name |-> IF Truthy(JGet(repo, "name", JNull)) THEN JGet(repo, "name", JNull)
              ELSE JGet(repo, "full_name", JStr(<<"?">>)),
     lang |-> JGet(repo, "language", JStr(<<>>)),
     updated |-> JSlice(JGet(repo, "updated_at", JStr(<<>>)), UpdatedChars)]

\* the org repos section raises when repos is truthy and cannot be sliced,
\* or when a round of its loop raises
ReposRaise(repos) ==
    Truthy(repos) /\
       (SliceRaises(repos) \/
        LET shown == JItems(JSlice(repos, ReposShown))
        IN  \E i \in 1..Len(shown) : RepoRaises(shown[i]))

ReposLines(repos) ==
    IF ~ Truthy(repos) THEN <<>>
    ELSE LET shown == JItems(JSlice(repos, ReposShown))
         IN  << P("repos_heading"), P("blank") >>
             \o [i \in 1..Len(shown) |-> RepoLine(shown[i])]
             \o (IF JLen(repos) > ReposShown
                 THEN << [kind |-> "repos_more", n |-> JLen(repos) - ReposShown] >>
                 ELSE <<>>)
             \o << P("blank") >>

\* one round of the loop over runs raises unless run is a dict whose
\* timestamp, when there, is a str or a list and whose metrics, when there,
\* is a dict
RunRaises(run) ==
    \/ GetRaises(run)
    \/ SliceRaises(JGet(run, "timestamp", JStr(<<>>)))
    \/ GetRaises(JGet(run, "metrics", JObj(EmptyDict)))

RunLine(run) ==
    [kind |-> "run",
     run_id |-> JGet(run, "run_id", JStr(<<"?">>)),
     ts |-> JSlice(JGet(run, "timestamp", JStr(<<>>)), TimestampChars),
     tap |-> JGet(JGet(run, "metrics", JObj(EmptyDict)), "tap_passed", JStr(<<"?">>)),
     phases |-> JGet(run, "phases", JObj(EmptyDict))]

RunsRaise(runs) ==
    \E i \in 1..Min(RunsShown, Len(runs)) : RunRaises(runs[i])

RunsLines(runs) ==
    IF runs = <<>> THEN <<>>
    ELSE << P("runs_heading"), P("blank") >>
         \o [i \in 1..Min(RunsShown, Len(runs)) |-> RunLine(runs[i])]
         \o << P("blank") >>

\* a build_context_prompt that puts the org repos before the ACTIVE_MEMORY
\* excerpt
BuildContextPromptReposFirst(context, task, maxMemoryChars, maxHits) ==
    IF ReposRaise(context.org_repos) \/ RunsRaise(context.recent_runs)
    THEN [state |-> "raised"]
    ELSE LET hits == PySlice(context.vector_hits, maxHits)
         IN  [state |-> "returned",
              parts |->
                << P("title"), P("blank"),
                   [kind |-> "task", text |-> IF task # <<>> THEN task ELSE context.query],
                   [kind |-> "rehydrated_at", at |-> context.rehydrated_at],
                   P("blank") >>
                \o [i \in 1..Len(context.warnings) |->
                       [kind |-> "warning", warning |-> context.warnings[i]]]
                \o (IF context.warnings # <<>> THEN << P("blank") >> ELSE <<>>)
                \o (IF hits # <<>>
                    THEN << P("hits_heading"), P("blank") >> \o HitsLines(hits, Len(hits))
                    ELSE <<>>)
                \o ReposLines(context.org_repos)
                \o MemoryLines(context.active_memory, maxMemoryChars)
                \o RunsLines(context.recent_runs)
                \o << P("rule"), P("footer") >>]

\* build_context_prompt(context, task_description, max_memory_chars,
\* max_hits): raised, or the lines of the prompt
BuildContextPrompt(context, task, maxMemoryChars, maxHits) ==
    IF ReposRaise(context.org_repos) \/ RunsRaise(context.recent_runs)
    THEN [state |-> "raised"]
    ELSE LET hits == PySlice(context.vector_hits, maxHits)
         IN  [state |-> "returned",
              parts |->
                << P("title"), P("blank"),
                   [kind |-> "task", text |-> IF task # <<>> THEN task ELSE context.query],
                   [kind |-> "rehydrated_at", at |-> context.rehydrated_at],
                   P("blank") >>
                \o [i \in 1..Len(context.warnings) |->
                       [kind |-> "warning", warning |-> context.warnings[i]]]
                \o (IF context.warnings # <<>> THEN << P("blank") >> ELSE <<>>)
                \o (IF hits # <<>>
                    THEN << P("hits_heading"), P("blank") >> \o HitsLines(hits, Len(hits))
                    ELSE <<>>)
                \o MemoryLines(context.active_memory, maxMemoryChars)
                \o ReposLines(context.org_repos)
                \o RunsLines(context.recent_runs)
                \o << P("rule"), P("footer") >>]

\* rehydrate as one step; the arguments of the call are kept with its outcome
RehydrateCall(q, k, inc, env) ==
    /\ bundle' = [args |-> [query |-> q, topK |-> k, inc |-> inc]]
                     @@ Rehydrate(file, sources, q, k, inc, env)
    /\ prompt' = NotCalled
    /\ UNCHANGED <<file, tmp, index, pc, fd, off, call, old, preFile, ret, dirty, lastFlush,
                   sources, chunker>>

\* build_context_prompt on the bundle rehydrate returned
BuildContextPromptCall(task, maxMemoryChars, maxHits) ==
    /\ bundle.state = "returned"
    /\ prompt' = [args |-> [task |-> task, maxMemoryChars |-> maxMemoryChars,
                            maxHits |-> maxHits]]
                     @@ BuildContextPrompt(bundle.value, task, maxMemoryChars, maxHits)
    /\ UNCHANGED <<file, tmp, index, pc, fd, off, call, old, preFile, ret, dirty, lastFlush,
                   sources, bundle, chunker>>

\* ------------------------------------------- one instance: specification Spec
\* (every mutating call, injected I/O failures and process stops)

DoConstruct == Construct(1) /\ UNCHANGED <<calls, faults, rhVars, chunker>>

DoUpsert ==
    /\ \E a \in UpsertArgs : UpsertBegin(1, a.id, a.content, a.metadata, a.skip, a.remote)
    /\ UNCHANGED <<calls, faults, rhVars, chunker>>

DoDelete == (\E id \in Ids : DeleteBegin(1, id)) /\ UNCHANGED <<calls, faults, rhVars, chunker>>

DoDeleteAbsent == (\E id \in Ids : DeleteAbsent(1, id)) /\ UNCHANGED <<calls, faults, rhVars, chunker>>

DoClear == ClearBegin(1) /\ UNCHANGED <<calls, faults, rhVars, chunker>>

DoFlushOpen == FlushOpen(1) /\ UNCHANGED <<calls, faults, rhVars, chunker>>

DoFlushWrite == FlushWrite(1) /\ UNCHANGED <<calls, faults, rhVars, chunker>>

DoFlushReplace == FlushReplace(1) /\ UNCHANGED <<calls, faults, rhVars, chunker>>

DoFlushFail ==
    /\ faults < MaxFaults
    /\ faults' = faults + 1
    /\ FlushFail(1)
    /\ UNCHANGED <<calls, rhVars, chunker>>

DoCrash == Crash(1) /\ UNCHANGED <<calls, faults, rhVars, chunker>>

\* A query changes neither the index nor the files, so the state after two
\* queries in a row is the state after the second one alone: the
\* specifications take a query after a call that is not a query.
\* The iteration order of `common` matters to a query text of two terms or
\* more only; a shorter one is taken with one order.
ShortQueryTexts == {q \in QueryTexts : Len(TfidfEmbed(q)) < 2}
NoFilter == [given |-> FALSE, map |-> EmptyDict]

\* query under the default backend with a text of at most one term: every
\* top_k and filter
DoQuery ==
    /\ call[1].op # "query"
    /\ \E q \in ShortQueryTexts, k \in TopKs, f \in Filters :
           QueryCall(1, q, k, f, [hash |-> CHOOSE h \in HashOrders : TRUE,
                                  remote |-> Tfidf])
    /\ UNCHANGED <<calls, faults, rhVars, chunker>>

\* query under the default backend with a text of several terms: every
\* top_k and every iteration order, no filter
DoQueryRanked ==
    /\ call[1].op # "query"
    /\ \E q \in QueryTexts \ ShortQueryTexts, k \in TopKs, h \in HashOrders :
           QueryCall(1, q, k, NoFilter, [hash |-> h, remote |-> Tfidf])
    /\ UNCHANGED <<calls, faults, rhVars, chunker>>

\* query in a process configured with a dense backend, whatever the backend
\* returns for the query text
DoQueryDense ==
    /\ call[1].op # "query"
    /\ \E r \in DenseOutcomes \ {Tfidf}, h \in HashOrders :
           QueryCall(1, TextE, MaxTopK, NoFilter, [hash |-> h, remote |-> r])
    /\ UNCHANGED <<calls, faults, rhVars, chunker>>

Next ==
    \/ DoConstruct
    \/ DoUpsert
    \/ DoDelete
    \/ DoDeleteAbsent
    \/ DoClear
    \/ DoFlushOpen
    \/ DoFlushWrite
    \/ DoFlushReplace
    \/ DoFlushFail
    \/ DoCrash

Spec == Init /\ [][Next]_vars

\* ------------------------- one instance, queried: specification SpecQuery
\* (the calls of Spec without injected failures, and query)

NextQuery ==
    \/ DoConstruct
    \/ DoUpsert
    \/ DoDelete
    \/ DoClear
    \/ DoFlushOpen
    \/ DoFlushWrite
    \/ DoFlushReplace
    \/ DoQuery
    \/ DoQueryRanked
    \/ DoQueryDense

SpecQuery == Init /\ [][NextQuery]_vars

\* ------------------- one instance ingesting a file: specification SpecIngest

DoIngestBegin ==
    /\ calls[1] < MaxIngests
    /\ calls' = [calls EXCEPT ![1] = calls[1] + 1]
    /\ \E md \in MdFiles, source \in Sources, p \in ChunkParams :
           IngestBegin(1, md, source, p)
    /\ UNCHANGED <<faults, rhVars, chunker>>

DoIngestUpsert == IngestUpsert(1) /\ UNCHANGED <<calls, faults, rhVars, chunker>>

DoIngestReturn == IngestReturn(1) /\ UNCHANGED <<calls, faults, rhVars, chunker>>

NextIngest ==
    \/ DoConstruct
    \/ DoIngestBegin
    \/ DoIngestUpsert
    \/ DoFlushOpen
    \/ DoFlushWrite
    \/ DoFlushReplace
    \/ DoIngestReturn

SpecIngest == Init /\ [][NextIngest]_vars

\* ------------------------------ rehydration: specification SpecRehydrate

\* rehydration: the store files rehydrate may find (no file, a file a store
\* wrote, a file with an undecodable line, a file whose record has a null
\* embedding, a file with a Document, upserted with skip_embed, that is longer
\* than the excerpts taken of it)
GoodStoreFile ==
    FileOf(<< DumpLine(Document("a", TextE, EmbedText(TextE, Tfidf), [source |-> "x"])),
              DumpLine(Document("b", TextC, EmbedText(TextC, Tfidf), EmptyDict)) >>)
LongText == [i \in 1..(HitContentChars + 1) |-> "x"]
RehydrateFiles ==
    { NoFile,
      GoodStoreFile,
      FileOf(<< DumpLine(Document("c", LongText, EmptyEmbedding, EmptyDict)) >>),
      FileOf(<< DumpLine(Document("b", TextC, EmbedText(TextC, Tfidf), EmptyDict)),
                Line("undecodable", EmptyDict) >>),
      FileOf(<< Line("object", [id |-> "a", content |-> TextC, embedding |-> NullEmbedding]) >>) }
\* the snapshot ACTIVE_MEMORY.md: absent; its stat failing; fresh, of the
\* threshold age, and stale (ages in thousandths of an hour); unreadable
SnapshotText == <<"m", "1", "\n", "m", "2">>
Snapshots ==
    { [exists |-> FALSE],
      [exists |-> TRUE, stat |-> "fails", age |-> 0, read |-> "ok", content |-> SnapshotText],
      [exists |-> TRUE, stat |-> "ok", age |-> 1000, read |-> "ok", content |-> SnapshotText],
      [exists |-> TRUE, stat |-> "ok", age |-> 2000, read |-> "ok", content |-> <<>>],
      [exists |-> TRUE, stat |-> "ok", age |-> 2004, read |-> "ok", content |-> SnapshotText],
      [exists |-> TRUE, stat |-> "ok", age |-> 3000, read |-> "fails", content |-> SnapshotText] }
\* telemetry files as the glob lists them: a run record, a file that is no
\* JSON, a file gone before it is read, a file gone before its stat, JSON
\* that is no object, run records with a timestamp or metrics of another type
MaxTelemetryFiles == 2
GoodRun ==
    JObj([run_id |-> JStr(<<"r">>), timestamp |-> JStr(<<"2", "0", "2", "6">>),
          phases |-> JObj([plan |-> JStr(<<"o", "k">>)]),
          metrics |-> JObj([tap_passed |-> JBool(TRUE)])])
TelemetryFiles ==
    { [stat |-> "ok", mtime |-> 2, read |-> "ok", value |-> GoodRun],
      [stat |-> "ok", mtime |-> 3, read |-> "unparsable", value |-> JNull],
      [stat |-> "ok", mtime |-> 1, read |-> "gone", value |-> JNull],
      [stat |-> "gone", mtime |-> 0, read |-> "gone", value |-> JNull],
      [stat |-> "ok", mtime |-> 1, read |-> "ok", value |-> JNum(7)],
      [stat |-> "ok", mtime |-> 3, read |-> "ok",
       value |-> JObj([run_id |-> JNum(1), timestamp |-> JNum(1700000000)])],
      [stat |-> "ok", mtime |-> 2, read |-> "ok",
       value |-> JObj([metrics |-> JList(<<>>)])] }
RECURSIVE SeqsUpTo(_, _)
SeqsUpTo(S, n) ==
    IF n = 0 THEN {<<>>}
    ELSE SeqsUpTo(S, n - 1) \cup {Append(q, x) : q \in SeqsUpTo(S, n - 1), x \in S}
TelemetryDirs ==
    {[exists |-> FALSE, files |-> <<>>]}
    \cup {[exists |-> TRUE, files |-> fs] : fs \in SeqsUpTo(TelemetryFiles, MaxTelemetryFiles)}
\* directories of one file more than rehydrate reads, in the order the glob
\* lists them: every file a run record; the second newest no JSON; the third
\* newest gone before it is read and two files of one modification time
RunFile(mtime, read, id) ==
    [stat |-> "ok", mtime |-> mtime, read |-> read, value |-> JObj([run_id |-> JNum(id)])]
LongTelemetryDirs ==
    { [exists |-> TRUE,
       files |-> << RunFile(4, "ok", 4), RunFile(9, "ok", 9), RunFile(6, "ok", 6),
                    RunFile(5, "ok", 5), RunFile(8, "ok", 8), RunFile(7, "ok", 7) >>],
      [exists |-> TRUE,
       files |-> << RunFile(4, "ok", 4), RunFile(9, "ok", 9), RunFile(6, "ok", 6),
                    RunFile(5, "ok", 5), RunFile(8, "unparsable", 8), RunFile(7, "ok", 7) >>],
      [exists |-> TRUE,
       files |-> << RunFile(4, "ok", 4), RunFile(9, "ok", 9), RunFile(6, "ok", 61),
                    RunFile(6, "ok", 62), RunFile(8, "ok", 8), RunFile(7, "gone", 7) >>] }
\* the org index file ORG_REPO_INDEX.json: absent, unreadable or no JSON,
\* and JSON of several shapes
GoodRepo ==
    JObj([name |-> JStr(<<"r">>), language |-> JStr(<<"p", "y">>),
          updated_at |-> JStr(<<"2", "0", "2", "6">>)])
OrgIndexValues ==
    { JObj([repositories |-> JList(<<GoodRepo, JObj([full_name |-> JStr(<<"o", "/", "r">>)])>>)]),
      JObj(EmptyDict),
      JObj([repositories |-> JStr(<<"r">>)]),
      JObj([repositories |-> JNum(3)]),
      JObj([repositories |-> JNull]),
      JObj([repositories |-> JObj([r |-> GoodRepo])]),
      JList(<<GoodRepo, JNum(1)>>),
      JList(<<JObj([name |-> JStr(<<"r">>), updated_at |-> JNull])>>),
      JList([i \in 1..(ReposShown + 1) |-> GoodRepo]),
      JNum(5) }
OrgIndexFiles ==
    { [exists |-> FALSE], [exists |-> TRUE, read |-> "fails", value |-> JNull] }
    \cup {[exists |-> TRUE, read |-> "ok", value |-> v] : v \in OrgIndexValues}
\* the states rehydrate is called in: every store file with every snapshot,
\* over an absent or a good telemetry directory and index file; and every
\* telemetry directory with every index file, over an absent or a good store
\* file and an absent or a readable (stale) snapshot
ReadableSnapshot ==
    [exists |-> TRUE, stat |-> "ok", age |-> 2004, read |-> "ok", content |-> SnapshotText]
GoodTelemetryDir ==
    [exists |-> TRUE,
     files |-> << [stat |-> "ok", mtime |-> 2, read |-> "ok", value |-> GoodRun] >>]
GoodOrgIndexFile ==
    [exists |-> TRUE, read |-> "ok",
     value |-> JObj([repositories |->
                       JList(<<GoodRepo, JObj([full_name |-> JStr(<<"o", "/", "r">>)])>>)])]
SourceStates ==
    [file : RehydrateFiles, snapshot : Snapshots,
     telemetry : {[exists |-> FALSE, files |-> <<>>], GoodTelemetryDir},
     orgIndex : {[exists |-> FALSE], GoodOrgIndexFile}]
    \cup
    [file : {NoFile, GoodStoreFile}, snapshot : {[exists |-> FALSE], ReadableSnapshot},
     telemetry : TelemetryDirs \cup LongTelemetryDirs, orgIndex : OrgIndexFiles]
\* the include_* flags of rehydrate: all sources, or all but one
Includes ==
    {inc \in [active_memory : BOOLEAN, telemetry : BOOLEAN, org_index : BOOLEAN] :
        Cardinality({k \in DOMAIN inc : ~ inc[k]}) <= 1}
\* two iteration orders of a set of terms, under which the score of TextE
\* against itself differs
RehydrateHashOrders ==
    { << <<"a", "a">>, <<"b", "b">>, <<"c", "c">> >>,
      << <<"b", "b">>, <<"c", "c">>, <<"a", "a">> >> }
\* task_description, max_memory_chars and max_hits of build_context_prompt
PromptArgs ==
    { [task |-> <<>>, maxMemoryChars |-> 2000, maxHits |-> 5],
      [task |-> <<"t">>, maxMemoryChars |-> 4, maxHits |-> 1],
      [task |-> <<>>, maxMemoryChars |-> 2000, maxHits |-> 0],
      [task |-> <<"t">>, maxMemoryChars |-> 0, maxHits |-> 0 - 1] }


InitRehydrate ==
    /\ \E st \in SourceStates :
          /\ file = st.file
          /\ sources = [snapshot |-> st.snapshot, telemetry |-> st.telemetry,
                        orgIndex |-> st.orgIndex]
    /\ tmp = NoFile
    /\ index = [s \in Stores |-> <<>>]
    /\ pc = [s \in Stores |-> "none"]
    /\ fd = [s \in Stores |-> "none"]
    /\ off = [s \in Stores |-> 0]
    /\ call = [s \in Stores |-> NoCall]
    /\ old = [s \in Stores |-> <<>>]
    /\ preFile = [s \in Stores |-> NoFile]
    /\ ret = [s \in Stores |-> Ret("none")]
    /\ dirty = [s \in Stores |-> FALSE]
    /\ calls = [s \in Stores |-> 0]
    /\ lastFlush = [by |-> 0, lines |-> <<>>]
    /\ faults = 0
    /\ bundle = NotCalled
    /\ prompt = NotCalled
    /\ chunker = NotCalled

DoRehydrate ==
    /\ bundle = NotCalled
    /\ \E k \in 1..MaxTopK, inc \in Includes, h \in RehydrateHashOrders :
           RehydrateCall(TextE, k, inc, [hash |-> h, remote |-> Tfidf])
    /\ UNCHANGED <<calls, faults>>

DoBuildContextPrompt ==
    /\ prompt = NotCalled
    /\ \E a \in PromptArgs : BuildContextPromptCall(a.task, a.maxMemoryChars, a.maxHits)
    /\ UNCHANGED <<calls, faults>>

NextRehydrate ==
    \/ DoRehydrate
    \/ DoBuildContextPrompt

SpecRehydrate == InitRehydrate /\ [][NextRehydrate]_vars

\* ------------------- a source ingested again: specification SpecReingest

DoReingestBegin ==
    /\ calls[1] < MaxReingests
    /\ calls' = [calls EXCEPT ![1] = calls[1] + 1]
    /\ \E md \in ReingestFiles, source \in Sources, p \in ChunkParams :
           IngestBegin(1, md, source, p)
    /\ UNCHANGED <<faults, rhVars, chunker>>

NextReingest ==
    \/ DoConstruct
    \/ DoReingestBegin
    \/ DoIngestUpsert
    \/ DoFlushOpen
    \/ DoFlushWrite
    \/ DoFlushReplace
    \/ DoIngestReturn

SpecReingest == Init /\ [][NextReingest]_vars

\* ------------------------- _chunk_text step by step: specification SpecChunk

InitChunk ==
    /\ file = NoFile
    /\ tmp = NoFile
    /\ index = [s \in Stores |-> <<>>]
    /\ pc = [s \in Stores |-> "none"]
    /\ fd = [s \in Stores |-> "none"]
    /\ off = [s \in Stores |-> 0]
    /\ call = [s \in Stores |-> NoCall]
    /\ old = [s \in Stores |-> <<>>]
    /\ preFile = [s \in Stores |-> NoFile]
    /\ ret = [s \in Stores |-> Ret("none")]
    /\ dirty = [s \in Stores |-> FALSE]
    /\ calls = [s \in Stores |-> 0]
    /\ lastFlush = [by |-> 0, lines |-> <<>>]
    /\ faults = 0
    /\ sources = NoSources
    /\ bundle = NotCalled
    /\ prompt = NotCalled
    /\ \E text \in MdTexts, p \in AnyChunkParams :
           chunker = ChunkTextCall(text, p.size, p.overlap)

NextChunk ==
    \/ ChunkForSection
    \/ ChunkWhile
    \/ ChunkReturn

SpecChunk == InitChunk /\ [][NextChunk]_vars

\* the interpreter keeps running the call: a step that can be taken is taken
SpecChunkFair == SpecChunk /\ WF_vars(NextChunk)

\* --------------------------- two instances on one path: specification SpecRace

Counted(s) ==
    /\ calls[s] < MaxRaceCalls
    /\ calls' = [calls EXCEPT ![s] = calls[s] + 1]

RaceConstruct == \E s \in Stores : pc[s] = "none" /\ Construct(s) /\ UNCHANGED <<calls, faults, rhVars, chunker>>

RaceUpsert ==
    \E s \in Stores, a \in UpsertArgs :
        UpsertBegin(s, a.id, a.content, a.metadata, a.skip, a.remote) /\ Counted(s) /\ UNCHANGED <<faults, rhVars, chunker>>

RaceDelete == \E s \in Stores, id \in Ids : DeleteBegin(s, id) /\ Counted(s) /\ UNCHANGED <<faults, rhVars, chunker>>

RaceClear == \E s \in Stores : ClearBegin(s) /\ Counted(s) /\ UNCHANGED <<faults, rhVars, chunker>>

RaceFlushOpen == \E s \in Stores : FlushOpen(s) /\ UNCHANGED <<calls, faults, rhVars, chunker>>

RaceFlushWrite == \E s \in Stores : FlushWrite(s) /\ UNCHANGED <<calls, faults, rhVars, chunker>>

RaceFlushReplace == \E s \in Stores : FlushReplace(s) /\ UNCHANGED <<calls, faults, rhVars, chunker>>

NextRace ==
    \/ RaceConstruct
    \/ RaceUpsert
    \/ RaceDelete
    \/ RaceClear
    \/ RaceFlushOpen
    \/ RaceFlushWrite
    \/ RaceFlushReplace

SpecRace == Init /\ [][NextRace]_vars

\* =================================================================== claims

ReturnedOk(s) == pc[s] = "idle" /\ ret[s].kind \in {"ok", "true"}

\* the Documents of two indexes agree in id, content and metadata
SameDocs(i1, i2) ==
    /\ IdsOf(i1) = IdsOf(i2)
    /\ \A id \in IdsOf(i1) :
          /\ Get(i1, id).content = Get(i2, id).content
          /\ Get(i1, id).metadata = Get(i2, id).metadata

\* every Document under an id other than id is the same in both indexes
OthersUnchanged(before, after, id) ==
    \A j \in (IdsOf(before) \cup IdsOf(after)) \ {id} :
        /\ Has(before, j) /\ Has(after, j)
        /\ Get(before, j) = Get(after, j)

\* C1: when upsert(id, content, metadata) has returned, the store holds
\* exactly one Document with that id, whose content, embedding and metadata
\* are those of this call only (no metadata key of the replaced Document
\* survives); count() is unchanged if the id was present before and larger
\* by one otherwise; every Document under another id is unchanged.
C1_UpsertReplaces ==
    \A s \in Stores :
        (ReturnedOk(s) /\ call[s].op = "upsert") =>
            LET c == call[s]
                idx == index[s]
            IN  /\ Cardinality({i \in 1..Len(idx) : idx[i].id = c.id}) = 1
                /\ Get(idx, c.id).content = c.content
                /\ Get(idx, c.id).metadata = c.metadata
                /\ Get(idx, c.id).embedding =
                      (IF c.skip THEN EmptyEmbedding ELSE EmbedText(c.content, c.remote))
                /\ CountDocs(idx) =
                      CountDocs(old[s]) + (IF Has(old[s], c.id) THEN 0 ELSE 1)
                /\ OthersUnchanged(old[s], idx, c.id)

\* an upsert without metadata has replaced a Document that had a metadata
\* key, next to a Document under another id
C1_Witness ==
    /\ ReturnedOk(1) /\ call[1].op = "upsert"
    /\ Has(old[1], call[1].id)
    /\ "source" \in DOMAIN Get(old[1], call[1].id).metadata
    /\ call[1].metadata = EmptyDict
    /\ CountDocs(index[1]) = 2

\* C2: with one writer, whenever the instance is idle and its last attempt
\* to persist (if any) returned normally, a new instance constructed on the
\* path would load exactly the ids of the live instance, each with the same
\* content and metadata.
C2_RoundTrip ==
    \A s \in Stores :
        (pc[s] = "idle" /\ ~ dirty[s]) =>
            /\ ~ LoadRaises(file)
            /\ SameDocs(Load(file), index[s])

\* after an upsert with metadata and a later delete that returned true, the
\* store still holds a Document with metadata
C2_Witness ==
    /\ pc[1] = "idle" /\ ~ dirty[1]
    /\ call[1].op = "delete" /\ ret[1].kind = "true"
    /\ \E i \in 1..Len(index[1]) : index[1][i].metadata # EmptyDict

\* C3: with one writer, while a mutating call is inside _flush, when the
\* process stopped there, and after the call raised, the backing file is
\* the complete file it was when the call started; once the call has
\* returned it is the complete new index; it is never anything else.
C3_OldOrNewFile ==
    \A s \in Stores :
        /\ (pc[s] \in {"flush", "writing", "crashed"}) => file = preFile[s]
        /\ (pc[s] = "idle" /\ ret[s].kind = "raised") => file = preFile[s]
        /\ ReturnedOk(s) => file = FileOf(Serialize(index[s]))

\* the process stopped in an upsert of a second Document after one of the
\* two records was written to the temporary file
C3_Witness ==
    /\ pc[1] = "crashed"
    /\ call[1].op = "upsert" /\ call[1].id = "b"
    /\ IdsOf(Load(preFile[1])) = {"a"}
    /\ tmp.exists /\ Len(tmp.lines) = 1

\* C4: when two instances on one path interleave the steps of _flush, the
\* backing file is at every moment the complete serialized index of the
\* writer whose rename succeeded last, never a truncated file or a mixture
\* of the two writers' records.
C4_LastRenameWins ==
    lastFlush.by # 0 => file = FileOf(lastFlush.lines)

\* C5: an instance is changed by its own calls only, whatever another
\* instance writes to the file after it was constructed, and when one of its
\* mutating calls returns normally the backing file is readable and holds no
\* Document outside its own index (a Document x that only another instance
\* wrote is no longer in the file).
C5_OwnIndexOnly ==
    [][\A s \in Stores :
          /\ (index'[s] # index[s]) =>
                 \/ pc[s] = "idle" /\ pc'[s] = "flush"
                 \/ pc[s] = "none" /\ pc'[s] = "idle"
          /\ (pc[s] = "writing" /\ pc'[s] = "idle" /\ ret'[s].kind \in {"ok", "true"}) =>
                 /\ ~ LoadRaises(file')
                 /\ IdsOf(Load(file')) \subseteq IdsOf(index'[s])]_vars

\* C6: a mutating call that has ended has returned normally or raised;
\* whenever it returned normally and was to persist (upsert, clear, delete
\* of a present id) the backing file holds the new index, so that every
\* failure to write or rename the temporary file has raised.
C6_FailureRaises ==
    \A s \in Stores :
        (pc[s] = "idle" /\ call[s].op \in {"upsert", "delete", "clear"}) =>
            /\ ret[s].kind \in {"ok", "true", "false", "raised"}
            /\ (ret[s].kind \in {"ok", "true"}) =>
                   (file = FileOf(Serialize(index[s])) /\ ~ dirty[s])
            /\ (ret[s].kind = "false") =>
                   (call[s].op = "delete" /\ ~ Has(old[s], call[s].id))

\* an upsert raised after part of the temporary file was written, and the
\* backing file does not hold the new index
C6_Witness ==
    /\ pc[1] = "idle" /\ call[1].op = "upsert" /\ ret[1].kind = "raised"
    /\ tmp.exists /\ Len(tmp.lines) = 1 /\ Len(index[1]) = 2
    /\ file # FileOf(Serialize(index[1]))

\* the lines of the file that are well-formed records
WellFormedLines(f) ==
    {i \in 1..Len(f.lines) :
        f.lines[i].kind = "object" /\ {"id", "content"} \subseteq DOMAIN f.lines[i].obj}

\* C7: constructing a store on a file that mixes well-formed records and
\* malformed lines never raises; the index holds exactly the well-formed
\* records, the last well-formed line of an id winning, and count() does not
\* count the malformed lines.
C7_LoadSkipsMalformed ==
    \A s \in Stores :
        /\ ret[s].kind # "ctor_raised"
        /\ (ret[s].kind = "constructed") =>
              LET wf == WellFormedLines(file)
                  LastOf(id) == CHOOSE i \in wf :
                                   /\ file.lines[i].obj.id = id
                                   /\ \A j \in wf : file.lines[j].obj.id = id => j <= i
              IN  /\ IdsOf(index[s]) = {file.lines[i].obj.id : i \in wf}
                  /\ CountDocs(index[s]) = Cardinality({file.lines[i].obj.id : i \in wf})
                  /\ \A id \in IdsOf(index[s]) :
                        Get(index[s], id).content = file.lines[LastOf(id)].obj.content

\* C8: delete(id) returns true exactly when the id was in the store; then
\* the id is gone, count() is smaller by one, every other Document is
\* unchanged and the backing file is rewritten; when it returns false the
\* index and the backing file are as before.
C8_Delete ==
    \A s \in Stores :
        (pc[s] = "idle" /\ call[s].op = "delete") =>
            LET id == call[s].id
            IN  /\ ret[s].kind \in {"true", "false", "raised"}
                /\ (ret[s].kind = "true") =>
                      /\ Has(old[s], id)
                      /\ ~ Has(index[s], id)
                      /\ CountDocs(index[s]) = CountDocs(old[s]) - 1
                      /\ OthersUnchanged(old[s], index[s], id)
                      /\ file = FileOf(Serialize(index[s]))
                /\ (ret[s].kind = "false") =>
                      /\ ~ Has(old[s], id)
                      /\ index[s] = old[s]
                      /\ file = preFile[s]
                /\ Has(old[s], id) => ret[s].kind # "false"

\* a delete returned true and left the other Document in the store
C8_Witness ==
    /\ pc[1] = "idle" /\ call[1].op = "delete" /\ ret[1].kind = "true"
    /\ CountDocs(old[1]) = 2 /\ CountDocs(index[1]) = 1

QueryReturned(s) == pc[s] = "idle" /\ call[s].op = "query" /\ ret[s].kind = "hits"

\* the number of Documents of the index the metadata filter lets pass
Passing(idx, f) ==
    Cardinality({i \in 1..Len(idx) :
        (f.given /\ f.map # EmptyDict) =>
            \A k \in DOMAIN f.map : DictGet(idx[i].metadata, k, None) = f.map[k]})

\* C9 as stated: query never returns more than topK entries, for topK >= 0
\* exactly min(topK, Documents passing the filter), and none from an empty
\* store.
C9_AtMostTopK ==
    \A s \in Stores :
        QueryReturned(s) =>
            LET k == call[s].topK
                n == Passing(index[s], call[s].filter)
                hits == ret[s].hits
            IN  /\ Len(hits) <= k
                /\ (k >= 0) => Len(hits) = Min(k, n)
                /\ (index[s] = <<>>) => hits = <<>>

\* C9 as amended: for topK >= 0 query returns exactly min(topK, Documents
\* passing the filter) entries, so never more than topK, Documents scoring 0
\* included; for topK < 0 it returns max(0, n + topK) entries; it returns
\* none from an empty store.
C9_SliceLength ==
    \A s \in Stores :
        QueryReturned(s) =>
            LET k == call[s].topK
                n == Passing(index[s], call[s].filter)
                hits == ret[s].hits
            IN  /\ (k >= 0) => (Len(hits) = Min(k, n) /\ Len(hits) <= k)
                /\ (k < 0) => Len(hits) = Max(0, n + k)
                /\ (index[s] = <<>>) => hits = <<>>

\* a query with topK = -1 on two Documents returned one entry, scoring 0
C9_Witness ==
    /\ QueryReturned(1)
    /\ call[1].topK = 0 - 1
    /\ CountDocs(index[1]) = 2
    /\ Len(ret[1].hits) = 1
    /\ ret[1].hits[1].score = 0

\* C10: every Document query returns has each key of the metadata filter in
\* its metadata, with the filter's value; a Document lacking a filter key or
\* holding another value for it is never returned.
C10_FilterSuperset ==
    \A s \in Stores :
        (QueryReturned(s) /\ call[s].filter.given) =>
            \A i \in 1..Len(ret[s].hits) :
                \A k \in DOMAIN call[s].filter.map :
                    /\ k \in DOMAIN ret[s].hits[i].doc.metadata
                    /\ ret[s].hits[i].doc.metadata[k] = call[s].filter.map[k]

\* the score query computed for a Document, recomputed from the call
ScoreOf(s, doc) ==
    CosineSparse(EmbedText(call[s].text, call[s].env.remote).sparse,
                 DictGet(doc.embedding, "sparse", <<>>), call[s].env.hash)

\* the Documents of index idx the filter of the call of s lets pass
PassesFilter(s, doc) ==
    (call[s].filter.given /\ call[s].filter.map # EmptyDict) =>
        \A k \in DOMAIN call[s].filter.map :
            DictGet(doc.metadata, k, None) = call[s].filter.map[k]

IdSeq(idx) == [i \in 1..Len(idx) |-> idx[i].id]

\* C11: the list query returns has non-increasing scores; returned Documents
\* of equal score are in store-iteration order; no candidate cut off by topK
\* scores higher than the lowest returned score; store-iteration order is the
\* order of first insertion since the last deletion (an upsert of a present
\* id keeps every position, an upsert of a new id appends, a delete removes
\* one id and keeps the order of the others).
C11_RankedStable ==
    /\ [](\A s \in Stores :
            QueryReturned(s) =>
                LET hits == ret[s].hits
                    idx == index[s]
                IN  /\ \A i, j \in 1..Len(hits) :
                          i < j =>
                            /\ hits[i].score >= hits[j].score
                            /\ (hits[i].score = hits[j].score) =>
                                   Pos(idx, hits[i].doc.id) < Pos(idx, hits[j].doc.id)
                    /\ \A n \in 1..Len(idx) :
                          ( /\ hits # <<>>
                            /\ PassesFilter(s, idx[n])
                            /\ \A i \in 1..Len(hits) : hits[i].doc.id # idx[n].id )
                          => ScoreOf(s, idx[n]) <= hits[Len(hits)].score)
    /\ [][\A s \in Stores :
            (pc[s] = "idle" /\ pc'[s] = "flush") =>
                LET before == IdSeq(index[s])
                    after == IdSeq(index'[s])
                IN  CASE call'[s].op = "upsert" ->
                            after = IF call'[s].id \in IdsOf(index[s])
                                    THEN before ELSE Append(before, call'[s].id)
                      [] call'[s].op = "delete" ->
                            after = SelectSeq(before, LAMBDA id : id # call'[s].id)
                      [] OTHER -> TRUE]_vars

\* a query returned two Documents of equal positive score, "b" first: it was
\* inserted before "a"
C11_Witness ==
    /\ QueryReturned(1)
    /\ Len(ret[1].hits) = 2
    /\ ret[1].hits[1].score = ret[1].hits[2].score
    /\ ret[1].hits[1].score > 0
    /\ ret[1].hits[1].doc.id = "b"

\* the set of tokens of a text
TokenSet(text) == {Tokenize(text)[i] : i \in 1..Len(Tokenize(text))}

\* the Document carries an embedding that embed_text made
EmbeddedByUpsert(doc) ==
    /\ "backend" \in DOMAIN doc.embedding
    /\ doc.embedding.backend # "none"

\* C12: a Document embedded by upsert scores 0 exactly when its content and
\* the query text have no token in common (also when one of them has no
\* token) and more than 0 otherwise; a Document stored with skip_embed
\* scores 0 against every query.
C12_ZeroIffDisjoint ==
    \A s \in Stores :
        QueryReturned(s) =>
            \A i \in 1..Len(ret[s].hits) :
                LET hit == ret[s].hits[i]
                    shared == TokenSet(call[s].text) \cap TokenSet(hit.doc.content)
                IN  /\ EmbeddedByUpsert(hit.doc) =>
                          /\ hit.score >= 0
                          /\ (hit.score = 0) <=> (shared = {})
                    /\ (hit.doc.embedding = EmptyEmbedding) => hit.score = 0

\* a query returned an embedded Document scoring more than 0 and a Document
\* stored with skip_embed scoring 0, whose content shares a token with the
\* query text
C12_Witness ==
    /\ QueryReturned(1)
    /\ Len(ret[1].hits) = 2
    /\ EmbeddedByUpsert(ret[1].hits[1].doc)
    /\ ret[1].hits[1].score > 0
    /\ ret[1].hits[1].doc.content # call[1].text
    /\ ret[1].hits[2].doc.embedding = EmptyEmbedding
    /\ ret[1].hits[2].score = 0
    /\ TokenSet(call[1].text) \cap TokenSet(ret[1].hits[2].doc.content) # {}

\* C13: when the query text is the content of a stored Document D that upsert
\* embedded and that has a token, D scores more than 0 and no Document of
\* the store scores more than D; with topK = 1 the result is D, or a
\* Document earlier in store order that ties with D.
C13_SelfQueryWins ==
    \A s \in Stores :
        (QueryReturned(s) /\ ~ call[s].filter.given) =>
            \A n \in 1..Len(index[s]) :
                LET D == index[s][n]
                    hits == ret[s].hits
                IN  ( /\ EmbeddedByUpsert(D)
                      /\ Tokenize(D.content) # <<>>
                      /\ call[s].text = D.content )
                    =>
                    /\ ScoreOf(s, D) > 0
                    /\ \A m \in 1..Len(index[s]) : ScoreOf(s, index[s][m]) <= ScoreOf(s, D)
                    /\ (call[s].topK = 1) =>
                          /\ Len(hits) = 1
                          /\ \/ hits[1].doc = D
                             \/ /\ Pos(index[s], hits[1].doc.id) < n
                                /\ hits[1].score = ScoreOf(s, D)

\* C14: every score query computes lies in [0, 1].
C14_ScoreInUnitInterval ==
    \A s \in Stores :
        QueryReturned(s) =>
            \A n \in 1..Len(index[s]) :
                /\ ScoreOf(s, index[s][n]) >= 0
                /\ ScoreOf(s, index[s][n]) <= FromInt(1)

\* a store whose Documents carry other dense vectors and backend tags
Redense(idx, v) ==
    [i \in 1..Len(idx) |->
        IF {"backend", "dense"} \subseteq DOMAIN idx[i].embedding
        THEN [idx[i] EXCEPT !.embedding.backend = v.backend, !.embedding.dense = v.dense]
        ELSE idx[i]]

\* the ids and scores of a result, in order
Ranking(hits) == [i \in 1..Len(hits) |-> <<hits[i].doc.id, hits[i].score>>]

\* other dense data: the Documents' backend tag and dense vector (docs) and
\* the backend's answer for the query text (remote)
DenseWorlds ==
    { [docs |-> Tfidf, remote |-> Tfidf],
      [docs |-> [backend |-> "ollama", dense |-> "[7, 7]"],
       remote |-> [backend |-> "ollama", dense |-> "[2]"]],
      [docs |-> [backend |-> "openai", dense |-> "[5]"],
       remote |-> [backend |-> "openai", dense |-> None]] }

Chunked(s) == call[s].op = "ingest" /\ call[s].md.exists

\* chunk k of a section as C16 gives it: the words at offsets
\* [k*(chunkSize - overlap), min(k*(chunkSize - overlap) + chunkSize, W))
StrideChunk(words, k, p) ==
    LET from == k * (p.size - p.overlap)
        part == SubSeq(words, from + 1, Min(from + p.size, Len(words)))
    IN  Join(part, Len(part))

\* the chunks are those numbered by ks, in order, each as C16 gives it
ChunksAre(chunks, words, ks, p) ==
    /\ Len(chunks) = Cardinality(ks)
    /\ \A k \in ks : chunks[k + 1] = StrideChunk(words, k, p)

\* the starts of the windows over 1000 words with chunkSize 500, overlap 50
ExampleStarts ==
    LET w == Windows(1000, 0, 500, 50, <<>>) IN [i \in 1..Len(w) |-> w[i].start]

\* C16 as stated: a section of W >= 1 words gives one chunk for each k >= 0
\* with k*(chunkSize - overlap) < W, chunk k being the words at offsets
\* [k*(chunkSize - overlap), min(k*(chunkSize - overlap) + chunkSize, W)); 1000
\* words with chunkSize 500 and overlap 50 give windows starting at 0, 450, 900
C16_ChunkPerStride ==
    /\ (Chunked(1) /\ call[1].md.text \in PlainTexts) =>
          LET words == Words(call[1].md.text)
              p == call[1].params
              ks == {k \in 0..Len(words) : k * (p.size - p.overlap) < Len(words)}
          IN  ChunksAre(call[1].chunks, words, ks, p)
    /\ ExampleStarts = <<0, 450, 900>>

\* C16, amended: a section of W >= 1 words gives one chunk for each k >= 0
\* such that k = 0 or the window before it ended before the last word,
\* (k-1)*(chunkSize - overlap) + chunkSize < W; chunk k is the words at offsets
\* [k*(chunkSize - overlap), min(k*(chunkSize - overlap) + chunkSize, W)); 1000
\* words with chunkSize 500 and overlap 50 give windows starting at 0, 450, 900
C16_ChunkUntilEndReached ==
    /\ (Chunked(1) /\ call[1].md.text \in PlainTexts) =>
          LET words == Words(call[1].md.text)
              p == call[1].params
              ks == {k \in 0..Len(words) :
                        k = 0 \/ (k - 1) * (p.size - p.overlap) + p.size < Len(words)}
          IN  ChunksAre(call[1].chunks, words, ks, p)
    /\ ExampleStarts = <<0, 450, 900>>

\* a section was chunked with an overlap into two chunks or more, the last
\* window reaching the end while a further stride would still start inside
C16_Witness ==
    /\ Chunked(1) /\ call[1].md.text \in PlainTexts
    /\ call[1].params.overlap > 0
    /\ Len(call[1].chunks) >= 2
    /\ Len(call[1].chunks) * (call[1].params.size - call[1].params.overlap)
          < Len(Words(call[1].md.text))
    /\ pc[1] = "idle" /\ ret[1].kind = "count"

\* the words of the chunks
RECURSIVE ChunkWords(_, _)
ChunkWords(chunks, n) ==
    IF n = 0 THEN <<>> ELSE ChunkWords(chunks, n - 1) \o Words(chunks[n])

\* the positions of the text inside a heading line, and those of its marker
\* (the '#' characters and the whitespace after them)
LineStart(text, i) == i = 1 \/ text[i - 1] = "\n"
HeadingStarts(text) == {i \in 1..Len(text) : LineStart(text, i) /\ HeadingMatch(text, i) > 0}
InHeadingLine(text, j) ==
    \E i \in HeadingStarts(text) : i <= j /\ \A m \in i..(j - 1) : text[m] # "\n"
InMarker(text, j) ==
    \E i \in HeadingStarts(text) : i <= j /\ j <= HeadingMatch(text, i)

\* the text with the positions in `blank` made line breaks
Blanked(text, blank(_, _)) ==
    [j \in 1..Len(text) |-> IF blank(text, j) THEN "\n" ELSE text[j]]

SeqSet(seq) == {seq[i] : i \in 1..Len(seq)}

\* C17 as stated: no word of a heading line, marker or title word, is in a
\* chunk; the chunks consist of the words of the lines that are no heading
C17_HeadingLinesDiscarded ==
    Chunked(1) =>
        LET text == call[1].md.text
            chunks == call[1].chunks
        IN  SeqSet(ChunkWords(chunks, Len(chunks)))
              = SeqSet(Words(Blanked(text, InHeadingLine)))

\* C17, amended: only the marker of a heading line is removed.  When the text
\* holds a word outside the markers, the chunks consist of the words of the
\* text outside the markers, title words included, in the order of the text
\* (each word once when the overlap is 0), no chunk longer than chunkSize
\* words; when it holds none, the one chunk is the first chunkSize * 6
\* characters of the text as it is
C17_MarkersRemoved ==
    Chunked(1) =>
        LET text == call[1].md.text
            p == call[1].params
            chunks == call[1].chunks
            kept == Words(Blanked(text, InMarker))
            got == ChunkWords(chunks, Len(chunks))
        IN  IF kept # <<>>
            THEN /\ SeqSet(got) = SeqSet(kept)
                 /\ p.overlap = 0 => got = kept
                 /\ \A k \in 1..Len(chunks) :
                       Len(Words(chunks[k])) \in 1..p.size
            ELSE chunks = << SubSeq(text, 1, Min(Len(text), p.size * 6)) >>

\* a text with a heading that has a title word was chunked, the title word
\* is in a chunk, and ingest_markdown has returned
C17_Witness ==
    /\ Chunked(1)
    /\ pc[1] = "idle" /\ ret[1].kind = "count"
    /\ LET text == call[1].md.text
           chunks == call[1].chunks
       IN  \E j \in 1..Len(text) :
              /\ InHeadingLine(text, j) /\ ~ InMarker(text, j) /\ ~ IsSpace(text[j])
              /\ <<text[j]>> \in SeqSet(ChunkWords(chunks, Len(chunks)))

\* ingest_markdown has returned
IngestReturned(s) == pc[s] = "idle" /\ call[s].op = "ingest" /\ ret[s].kind = "count"

\* ingest_markdown returned n for an existing file and the index holds the n
\* chunks under the ids label::0 .. label::(n-1); for a missing file it
\* returned 0 and left index and backing file as they were
IngestedUnder(s, label) ==
    LET md == call[s].md
        p == call[s].params
        chunks == ChunkText(md.text, p.size, p.overlap)
        n == Len(chunks)
    IN  IF md.exists
        THEN /\ ret[s].n = n
             /\ \A i \in 0..(n - 1) :
                   LET id == label \o "::" \o ToString(i)
                       doc == Get(index[s], id)
                   IN  /\ Has(index[s], id)
                       /\ doc.content = chunks[i + 1]
                       /\ doc.metadata = [source |-> label, chunk_index |-> i,
                                          total_chunks |-> n]
        ELSE /\ ret[s].n = 0
             /\ index[s] = old[s]
             /\ file = preFile[s]

\* C18 as stated: ingest_markdown(path, source=S) on an existing file of n
\* chunks returns n, and get("S::i") is chunk i with metadata source=S,
\* chunk_index=i, total_chunks=n; on a missing path it returns 0 and changes
\* neither index nor file
C18_IngestUnderSource ==
    IngestReturned(1) => IngestedUnder(1, call[1].source)

\* C18, amended: as stated for a source S that is not empty; with an empty
\* source (the default) the path as a string takes the place of S in ids and
\* metadata
C18_IngestUnderSourceOrPath ==
    IngestReturned(1) =>
        IngestedUnder(1, IF call[1].source # "" THEN call[1].source ELSE "P")

\* ingest_markdown returned after ingesting two chunks or more under a source
\* that is not empty, and the backing file holds them
C18_Witness ==
    /\ IngestReturned(1)
    /\ call[1].md.exists /\ call[1].source = "S"
    /\ ret[1].n >= 2
    /\ ~ LoadRaises(file)
    /\ {"S::0", "S::1"} \subseteq IdsOf(Load(file))

\* ingest_markdown returned 0 for a missing path
C18_WitnessMissing ==
    IngestReturned(1) /\ ~ call[1].md.exists /\ index[1] # <<>>

\* -------------------------------------------------------------- rehydration

BundleKeys ==
    {"vector_hits", "active_memory", "recent_runs", "org_repos", "warnings",
     "rehydrated_at", "query"}

\* C19: rehydrate never raises and returns a bundle carrying all of
\* vector_hits, active_memory, recent_runs, org_repos, warnings, rehydrated_at
\* and query, whatever the state of the store file, the snapshot, the
\* telemetry directory (files unparsable, gone before the read, or gone
\* before the stat) and the index file
C19_RehydrateNeverRaises ==
    bundle # NotCalled =>
        /\ bundle.state = "returned"
        /\ DOMAIN bundle.value = BundleKeys

\* C20: build_context_prompt returns a text without raising for every bundle
\* rehydrate returned, whatever JSON values the entries of recent_runs and
\* org_repos are
C20_PromptNeverRaises ==
    prompt # NotCalled => prompt.state = "returned"

\* rehydrate returned a bundle
Rehydrated == bundle.state = "returned"

\* the warnings of the bundle that _load_active_memory made
ActiveMemoryWarnings ==
    {i \in 1..Len(bundle.value.warnings) :
        bundle.value.warnings[i].kind \in {"absent", "unreadable", "stale"}}

SnapshotAbsent == ~ sources.snapshot.exists
SnapshotUnreadable ==
    /\ sources.snapshot.exists
    /\ (sources.snapshot.stat = "fails" \/ sources.snapshot.read = "fails")
SnapshotStale ==
    /\ sources.snapshot.exists
    /\ sources.snapshot.stat = "ok"
    /\ sources.snapshot.age > FreshnessMilliHours

\* C21: with the snapshot included, the warnings of the bundle hold an
\* active-memory warning exactly when the snapshot is absent, unreadable or
\* older than the freshness threshold (an age equal to the threshold gives
\* none); active_memory.available is false exactly when the snapshot is
\* absent or unreadable; a stale snapshot that can be read is delivered with
\* available = true and its full content
C21_ActiveMemoryWarning ==
    (Rehydrated /\ bundle.args.inc.active_memory) =>
        LET am == bundle.value.active_memory
        IN  /\ (ActiveMemoryWarnings # {})
                  <=> (SnapshotAbsent \/ SnapshotUnreadable \/ SnapshotStale)
            /\ Cardinality(ActiveMemoryWarnings) <= 1
            /\ (am.available = FALSE) <=> (SnapshotAbsent \/ SnapshotUnreadable)
            /\ (SnapshotStale /\ ~ SnapshotUnreadable) =>
                  /\ am.available = TRUE
                  /\ am.content = sources.snapshot.content

\* rehydrate returned a stale snapshot, with its content and a warning
C21_Witness ==
    /\ Rehydrated /\ bundle.args.inc.active_memory
    /\ SnapshotStale /\ ~ SnapshotUnreadable
    /\ ActiveMemoryWarnings # {}
    /\ bundle.value.active_memory.available = TRUE
    /\ bundle.value.active_memory.content # <<>>

\* what C22 says org_repos is: the top-level value of the index file when
\* that is a list, the value under "repositories" when the top level is an
\* object and that value is a list, the empty list in every other case
ListOfIndexFile(f) ==
    IF ~ (f.exists /\ f.read = "ok") THEN JList(<<>>)
    ELSE IF f.value.t = "list" THEN f.value
    ELSE IF /\ f.value.t = "obj"
            /\ "repositories" \in DOMAIN f.value.fields
            /\ f.value.fields["repositories"].t = "list"
         THEN f.value.fields["repositories"]
    ELSE JList(<<>>)

\* C22: org_repos is always a list (the top-level list of the index file, or
\* the list under "repositories"; the empty list when the file is absent,
\* unreadable, no JSON, a scalar, an object without "repositories" or with a
\* "repositories" that is no list), and the index file never adds a warning
C22_OrgReposIsList ==
    (Rehydrated /\ bundle.args.inc.org_index) =>
        /\ bundle.value.org_repos.t = "list"
        /\ bundle.value.org_repos = ListOfIndexFile(sources.orgIndex)
        /\ \A i \in 1..Len(bundle.value.warnings) :
              bundle.value.warnings[i].kind
                 \in {"vector_store_unavailable", "absent", "unreadable", "stale"}

\* file j comes before file i in decreasing order of modification time, the
\* order of the listing deciding between equal times
NewerThan(files, j, i) ==
    \/ files[j].mtime > files[i].mtime
    \/ (files[j].mtime = files[i].mtime /\ j < i)

\* the place of file i among the files, newest first
PlaceOf(files, i) == 1 + Cardinality({j \in 1..Len(files) : NewerThan(files, j, i)})

\* the records of the parsable files among the 5 most recently modified, in
\* decreasing order of modification time
RecentParsable(dir) ==
    IF ~ dir.exists THEN <<>>
    ELSE LET n == Min(5, Len(dir.files))
             newest == [r \in 1..n |->
                          dir.files[CHOOSE i \in 1..Len(dir.files) :
                                       PlaceOf(dir.files, i) = r]]
             parsable == SelectSeq(newest, LAMBDA f : f.read = "ok")
         IN  [r \in 1..Len(parsable) |-> parsable[r].value]

\* C23: recent_runs holds at most 5 records, the parsable ones among the 5
\* most recently modified telemetry files in decreasing order of modification
\* time; a file among those 5 that does not parse is skipped, not replaced by
\* an older one, and adds no warning; an absent directory gives the empty list
C23_RecentRuns ==
    (Rehydrated /\ bundle.args.inc.telemetry) =>
        /\ Len(bundle.value.recent_runs) <= 5
        /\ bundle.value.recent_runs = RecentParsable(sources.telemetry)
        /\ ~ sources.telemetry.exists => bundle.value.recent_runs = <<>>
        /\ \A i \in 1..Len(bundle.value.warnings) :
              bundle.value.warnings[i].kind
                 \in {"vector_store_unavailable", "absent", "unreadable", "stale"}

\* rehydrate returned the records of a directory of more than 5 files, one of
\* the 5 newest being skipped, the oldest file parsable and left out
C23_Witness ==
    /\ Rehydrated /\ bundle.args.inc.telemetry
    /\ sources.telemetry.exists
    /\ Len(sources.telemetry.files) > 5
    /\ Len(bundle.value.recent_runs) = 4
    /\ \E i \in 1..Len(sources.telemetry.files) :
          /\ PlaceOf(sources.telemetry.files, i) > 5
          /\ sources.telemetry.files[i].read = "ok"

\* build_context_prompt returned a text
Prompted == prompt.state = "returned"

\* the section a line of the prompt belongs to: 1 warnings, 2 vector hits,
\* 3 active-memory excerpt, 4 org repos, 5 recent runs; 0 for the lines that
\* belong to none (title, task, blank lines, footer)
SectionOf(kind) ==
    CASE kind = "warning" -> 1
      [] kind \in {"hits_heading", "hit", "hit_excerpt"} -> 2
      [] kind \in {"memory_heading", "fence_open", "memory", "fence_close"} -> 3
      [] kind \in {"repos_heading", "repo", "repos_more"} -> 4
      [] kind \in {"runs_heading", "run"} -> 5
      [] OTHER -> 0

\* the lines of the prompt of one kind
LinesOf(kind) == {i \in 1..Len(prompt.parts) : prompt.parts[i].kind = kind}

\* the prompt has a line of section n
HasSection(n) == \E i \in 1..Len(prompt.parts) : SectionOf(prompt.parts[i].kind) = n

C24_WitnessExcerpt ==
    /\ Prompted /\ prompt.args.maxHits >= 1
    /\ \E i \in LinesOf("hit_excerpt") : Len(prompt.parts[i].text) = 300
    /\ \E h \in 1..Len(bundle.value.vector_hits) : Len(bundle.value.vector_hits[h].content) > 300

\* ------------------------------------------------------------- sparse vector

\* the Documents that ingest_markdown upserted
IsChunkDoc(doc) == "chunk_index" \in DOMAIN doc.metadata

\* positions i..j of the text are a maximal run of characters from
\* [a-zA-Z0-9_-]
IsMaximalRun(text, i, j) ==
    /\ i <= j
    /\ \A m \in i..j : text[m] \in TokenChars
    /\ (i = 1 \/ text[i - 1] \notin TokenChars)
    /\ (j = Len(text) \/ text[j + 1] \notin TokenChars)

\* the lower-cased maximal runs of at least 2 characters
LongRuns(text) ==
    { LowerAll(SubSeq(text, i, j)) :
        <<i, j>> \in {r \in (1..Len(text)) \X (1..Len(text)) :
                        IsMaximalRun(text, r[1], r[2]) /\ r[2] - r[1] + 1 >= 2} }

ChunkLoopAdvances ==
    [][(chunker.pc = "while" /\ chunker'.pc = "while") => chunker'.start > chunker.start]_vars

\* the call of _chunk_text has returned
ChunkReturned == chunker.pc = "returned"

\* the words of section i of the text
SectionWords(i) == Words(chunker.sections[i])

\* the text has at least one word
HasWord == \E i \in 1..Len(chunker.sections) : SectionWords(i) # <<>>

\* chunks k and k + 1 come from the same section
SameSection(k) == chunker.spans[k].section = chunker.spans[k + 1].section

\* the positions (1-based) of the words of chunk k in its section
Positions(k) == (chunker.spans[k].start + 1)..chunker.spans[k].end

\* C27: for 0 <= overlap < chunk_size and a text with at least one word, every
\* word of every section is in some chunk, each chunk has 1 to chunk_size
\* words, all of one section, the chunks are in the order of the text,
\* consecutive chunks of one section share exactly overlap words, and the
\* later one (so the last of the section) has a word the earlier one lacks
C27_ChunksCoverSections ==
    (ChunkReturned /\ chunker.overlap < chunker.chunkSize /\ HasWord) =>
        /\ Len(chunker.spans) = Len(chunker.chunks)
        /\ \A k \in 1..Len(chunker.chunks) :
              LET sp == chunker.spans[k]
              IN  /\ sp.section \in 1..Len(chunker.sections)
                  /\ 0 <= sp.start /\ sp.end <= Len(SectionWords(sp.section))
                  /\ Cardinality(Positions(k)) \in 1..chunker.chunkSize
                  /\ chunker.chunks[k] =
                         LET part == SubSeq(SectionWords(sp.section), sp.start + 1, sp.end)
                         IN  Join(part, Len(part))
        /\ \A i \in 1..Len(chunker.sections) : \A p \in 1..Len(SectionWords(i)) :
              \E k \in 1..Len(chunker.chunks) :
                  chunker.spans[k].section = i /\ p \in Positions(k)
        /\ \A k \in 1..(Len(chunker.chunks) - 1) :
              IF SameSection(k)
              THEN /\ chunker.spans[k].start < chunker.spans[k + 1].start
                   /\ Cardinality(Positions(k) \cap Positions(k + 1)) = chunker.overlap
                   /\ Positions(k + 1) \ Positions(k) # {}
              ELSE chunker.spans[k].section < chunker.spans[k + 1].section

\* a call with 0 < overlap < chunk_size has returned chunks of two sections,
\* two of them of the same section
C27_Witness ==
    /\ ChunkReturned
    /\ 0 < chunker.overlap /\ chunker.overlap < chunker.chunkSize
    /\ \E k \in 1..(Len(chunker.spans) - 1) : SameSection(k)
    /\ \E k \in 1..(Len(chunker.spans) - 1) : ~ SameSection(k)

\* ------------------------------------------------------------- re-ingestion

\* the Document was stored by an ingestion under the label, as chunk j
IsChunkOf(doc, label) ==
    /\ IsChunkDoc(doc)
    /\ doc.metadata.source = label
    /\ doc.id = ChunkId(label, doc.metadata.chunk_index)

\* C28: after ingest_markdown(path, source=S) returns n the store
\* holds no Document "S::j" with j >= n, and every Document whose metadata
\* source is S has total_chunks = n, also when S was ingested before from a
\* text of more chunks
C28_NoStaleChunks ==
    IngestReturned(1) =>
        \A i \in 1..Len(index[1]) :
            LET doc == index[1][i]
            IN  /\ IsChunkOf(doc, call[1].source) => doc.metadata.chunk_index < ret[1].n
                /\ ("source" \in DOMAIN doc.metadata /\ doc.metadata.source = call[1].source)
                      => /\ "total_chunks" \in DOMAIN doc.metadata
                         /\ doc.metadata.total_chunks = ret[1].n

\* the ids ingest_markdown has written under the label when it returned n
WrittenIds(label, n) == {ChunkId(label, j) : j \in 0..(n - 1)}

\* what ingest_markdown does: when it has returned n, the Documents "L::j"
\* with j < n have source L and total_chunks n (L the source, or the path when
\* the source is empty), and every Document the store held before the call
\* under another id is still held, unchanged
IngestRemovesNothing ==
    IngestReturned(1) =>
        LET label == IF call[1].source # "" THEN call[1].source ELSE "P"
            n == ret[1].n
        IN  /\ \A id \in WrittenIds(label, n) :
                  /\ Has(index[1], id)
                  /\ Get(index[1], id).metadata.source = label
                  /\ Get(index[1], id).metadata.total_chunks = n
            /\ \A i \in 1..Len(old[1]) :
                  old[1][i].id \notin WrittenIds(label, n) =>
                      /\ Has(index[1], old[1][i].id)
                      /\ Get(index[1], old[1][i].id) = old[1][i]
            /\ IdsOf(index[1]) = IdsOf(old[1]) \cup WrittenIds(label, n)

\* the second ingestion of source S returned fewer chunks than the first and
\* the store still holds a chunk of the first one, numbered past the end
ReingestLeavesStale ==
    /\ IngestReturned(1)
    /\ calls[1] = 2
    /\ call[1].source = "S"
    /\ ret[1].n >= 1
    /\ \E i \in 1..Len(index[1]) :
          /\ IsChunkOf(index[1][i], "S")
          /\ index[1][i].metadata.chunk_index >= ret[1].n
          /\ index[1][i].metadata.total_chunks > ret[1].n

\* ------------------------------------------------- a call that fails to persist

\* upsert, delete or clear of instance s has raised out of _flush
PersistFailed(s) ==
    pc[s] = "idle" /\ call[s].op \in {"upsert", "delete", "clear"} /\ ret[s].kind = "raised"

\* C29: if persisting fails inside upsert, delete or clear, the
\* in-memory index is the same as before the call, so that get, count and
\* query agree with the backing file
C29_FailedCallRestoresIndex ==
    \A s \in Stores : PersistFailed(s) => index[s] = old[s]

\* what the calls do: when persisting fails inside upsert, delete or clear,
\* the in-memory index keeps the change of the call (the upserted Document is
\* in it, the deleted id is not, after clear it is empty; every other
\* Document as before) and the backing file is not replaced
FailedCallKeepsChange ==
    PersistFailed(1) =>
        /\ file = preFile[1]
        /\ CASE call[1].op = "upsert" ->
                   /\ Has(index[1], call[1].id)
                   /\ Get(index[1], call[1].id).content = call[1].content
                   /\ Get(index[1], call[1].id).metadata = call[1].metadata
                   /\ OthersUnchanged(old[1], index[1], call[1].id)
             [] call[1].op = "delete" ->
                   /\ Has(old[1], call[1].id)
                   /\ ~ Has(index[1], call[1].id)
                   /\ OthersUnchanged(old[1], index[1], call[1].id)
             [] call[1].op = "clear" -> index[1] = <<>>

\* an upsert of a new id raised: the index holds the Document, the backing
\* file can be loaded and does not hold it
FailedUpsertKept ==
    /\ PersistFailed(1) /\ call[1].op = "upsert"
    /\ ~ Has(old[1], call[1].id)
    /\ Has(index[1], call[1].id)
    /\ ~ LoadRaises(file)
    /\ ~ Has(Load(file), call[1].id)
    /\ CountDocs(index[1]) # CountDocs(Load(file))

\* a delete raised, and a clear of an index that was not empty raised
FailedDelete == PersistFailed(1) /\ call[1].op = "delete"
FailedClear == PersistFailed(1) /\ call[1].op = "clear" /\ old[1] # <<>>

\* ---------------------------------------------- skipped lines and the rewrite

\* the constructor of instance s has just ended (returned or raised)
JustConstructed(s) == ret[s].kind \in {"constructed", "ctor_raised"}

\* the lines of the file that a load skips: those that are no well-formed
\* record, and the well-formed ones followed by a later one of the same id
SkippedLines(f) ==
    {i \in 1..Len(f.lines) :
        \/ i \notin WellFormedLines(f)
        \/ \E j \in WellFormedLines(f) : j > i /\ f.lines[j].obj.id = f.lines[i].obj.id}

\* C30: constructing a store never modifies the backing file; once upsert,
\* delete of a present id or clear has completed, the backing file holds
\* exactly one line per Document of the in-memory index (in the order of the
\* index) and no line that a load would skip
C30_RewriteDropsSkipped ==
    /\ JustConstructed(1) => file = preFile[1]
    /\ (ReturnedOk(1) /\ call[1].op \in {"upsert", "delete", "clear"}) =>
          /\ file.exists
          /\ Len(file.lines) = CountDocs(index[1])
          /\ \A i \in 1..Len(file.lines) :
                /\ file.lines[i].kind = "object"
                /\ file.lines[i] = DumpLine(index[1][i])
          /\ SkippedLines(file) = {}

\* a store loaded from a file with lines it skipped (malformed ones and a
\* superseded duplicate) has completed its first mutating call, which
\* rewrote the file without them
C30_Witness ==
    /\ ReturnedOk(1) /\ call[1].op \in {"upsert", "delete", "clear"}
    /\ preFile[1].exists
    /\ \E i \in SkippedLines(preFile[1]) : i \notin WellFormedLines(preFile[1])
    /\ \E i \in SkippedLines(preFile[1]) : i \in WellFormedLines(preFile[1])
    /\ index[1] # <<>>
    /\ SkippedLines(file) = {}

\* a store has been constructed on a file with lines it skipped, and the
\* file is as it was
C30_WitnessConstructed ==
    /\ ret[1].kind = "constructed"
    /\ file.exists /\ SkippedLines(file) # {}
    /\ CountDocs(index[1]) < Len(file.lines)

====
